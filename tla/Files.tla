------------------------------- MODULE Files -------------------------------
(***************************************************************************)
(* Uploaded files: the object in the store, the row in files, the rows of  *)
(* file_references that keep a file from being deleted, and the profile    *)
(* and the activity that use a file as avatar and as cover. Every call to  *)
(* the store and the database is a step of its own; a reference is changed *)
(* before the row that uses the file, and its errors are ignored.          *)
(***************************************************************************)
EXTENDS FiniteSets

CONSTANTS
    Files,  \* files of one user
    Biz(_), \* the biz type each is uploaded with: the use it is for
    Tasks,  \* requests, one operation each
    NoFile

Uses == {"avatar", "cover", "front", "back"}

ASSUME FilesAssumption ==
    /\ NoFile \notin Files
    /\ \A f \in Files : Biz(f) \in Uses

VARIABLES
    objects,   \* files whose object is in the store
    rows,      \* files that have a row
    refs,      \* file_references: pairs of a file and what uses it
    holder,    \* the file that each of them uses
    upload,    \* where UploadImage is for each file
    task,      \* what each request does
    stale,     \* requests that read an activity changed since
    unsafe,    \* history: files referenced when they were, in part or by a
               \*          Delete that had looked already, no longer there
    disturbed  \* history: users of files whose references may be wrong: a
               \*          call failed or two requests were at work on them

store == <<objects, rows, upload>>
use == <<refs, holder, stale, unsafe, disturbed>>
filesVars == <<store, use, task>>

NewTask == [at |-> "new", use |-> "avatar", old |-> NoFile, file |-> NoFile]

FilesInit ==
    /\ objects = {} /\ rows = {} /\ refs = {}
    /\ holder = [u \in Uses |-> NoFile]
    /\ upload = [f \in Files |-> "new"]
    /\ task = [t \in Tasks |-> NewTask]
    /\ stale = {} /\ unsafe = {} /\ disturbed = {}

Goes(t, from, to) == task[t].at = from /\ task' = [task EXCEPT ![t].at = to]

Ends(t) == task' = [task EXCEPT ![t].at = "done"]

-----------------------------------------------------------------------------
(* UploadImage: the object first, then the row.                            *)

PutObject(f) ==
    /\ upload[f] = "new"
    /\ upload' = [upload EXCEPT ![f] = "put"]
    /\ objects' = objects \cup {f}
    /\ UNCHANGED <<rows, use, task>>

(* When the row fails the object is removed, if that does not fail as well.*)
CreateRow(f) ==
    /\ upload[f] = "put"
    /\ upload' = [upload EXCEPT ![f] = "done"]
    /\ \/ rows' = rows \cup {f} /\ UNCHANGED objects
       \/ objects' \in {objects, objects \ {f}} /\ UNCHANGED rows
    /\ UNCHANGED <<use, task>>

-----------------------------------------------------------------------------
(* Delete.                                                                 *)

FindByUUID(t, f) ==
    /\ task[t].at = "new" /\ f \in rows
    /\ task' = [task EXCEPT ![t] = [at |-> "look", use |-> "avatar",
                                    old |-> NoFile, file |-> f]]
    /\ UNCHANGED <<store, use>>

IsReferencedBug(f) == FALSE  \* nobody asks

IsReferenced(f) == \E u \in Uses : <<f, u>> \in refs

LookForReferences(t) ==
    /\ IF IsReferenced(task[t].file) THEN Goes(t, "look", "done")
                                     ELSE Goes(t, "look", "remove")
    /\ UNCHANGED <<store, use>>

RemoveObject(t) ==
    /\ Goes(t, "remove", "drop")
    /\ objects' = objects \ {task[t].file}
    /\ UNCHANGED <<rows, upload, use>>

(* The model has no gorm.DeletedAt: the row is deleted.                    *)
SoftDelete(t) ==
    /\ Goes(t, "drop", "done")
    /\ rows' = rows \ {task[t].file}
    /\ UNCHANGED <<objects, upload, use>>

-----------------------------------------------------------------------------
(* UserService.Update with an avatar of any biz type, ActivityService.     *)
(* Update with a cover or without one.                                     *)

Replacing(u) ==
    {t \in Tasks : task[t].at \in {"unref", "ref", "write"} /\ task[t].use = u}

Find(t, u, f) ==
    /\ task[t].at = "new"
    /\ IF f = NoFile THEN u = "cover"
       ELSE f \in rows /\ (u = "cover" => Biz(f) = "cover")
    /\ task' = [task EXCEPT ![t] = [at |-> "unref", use |-> u,
                                    old |-> holder[u], file |-> f]]
    /\ disturbed' = disturbed \cup {v \in {u} : Replacing(u) # {}}
    /\ UNCHANGED <<store, refs, holder, stale, unsafe>>

WithoutOldBug(t) == refs  \* the old file keeps its reference

WithoutOld(t) ==
    IF task[t].old = task[t].file THEN refs
    ELSE refs \ {<<task[t].old, task[t].use>>}

RemoveReference(t) ==
    /\ Goes(t, "unref", "ref")
    /\ \/ refs' = WithoutOld(t) /\ UNCHANGED disturbed
       \/ /\ task[t].old \notin {NoFile, task[t].file}
          /\ disturbed' = disturbed \cup {task[t].use} /\ UNCHANGED refs
    /\ UNCHANGED <<store, holder, stale, unsafe>>

(* INSERT IGNORE; nothing checks that the file is still there.             *)
Refer(f, u) ==
    \/ /\ refs' = refs \cup {<<g, u>> : g \in {f} \ {NoFile}}
       /\ unsafe' = unsafe \cup
             {g \in {f} \ {NoFile} :
                \/ g \notin rows \cap objects
                \/ \E t \in Tasks : /\ task[t].file = g
                                    /\ task[t].at \in {"remove", "drop"}}
       /\ UNCHANGED disturbed
    \/ f # NoFile /\ disturbed' = disturbed \cup {u}
       /\ UNCHANGED <<refs, unsafe>>

AddReference(t) ==
    /\ Goes(t, "ref", "write")
    /\ Refer(task[t].file, task[t].use)
    /\ UNCHANGED <<store, holder, stale>>

(* The UPDATE of the activity asks for the version that was read.          *)
UpdateHolder(t) ==
    LET u == task[t].use
    IN /\ Goes(t, "write", "done")
       /\ u = "cover" => t \notin stale
       /\ holder' = [holder EXCEPT ![u] = task[t].file]
       /\ stale' = stale \cup {s \in Replacing(u) \ {t} : u = "cover"}
       /\ UNCHANGED <<store, refs, unsafe, disturbed>>

(* An error or a crash ends a request at any call.                         *)
TaskFails(t) ==
    /\ task[t].at \notin {"new", "front", "back", "done"}
    /\ Ends(t)
    /\ disturbed' = disturbed \cup
          {u \in {task[t].use} : task[t].at \in {"ref", "write"}}
    /\ UNCHANGED <<store, refs, holder, stale, unsafe>>

FilesNext ==
    \/ \E f \in Files : PutObject(f) \/ CreateRow(f)
    \/ \E t \in Tasks :
          \/ \E f \in Files : FindByUUID(t, f)
          \/ LookForReferences(t) \/ RemoveObject(t) \/ SoftDelete(t)
          \/ \E u \in {"avatar", "cover"}, f \in Files \cup {NoFile} :
                Find(t, u, f)
          \/ RemoveReference(t) \/ AddReference(t) \/ UpdateHolder(t)

-----------------------------------------------------------------------------
(* A file that is in use, and known to be, has its row and its object, if  *)
(* the reference was not written too late to stop a Delete (file.go        *)
(* Delete).                                                                *)
FilesInUseExist ==
    \A u \in Uses :
        <<holder[u], u>> \in refs /\ holder[u] \notin unsafe
          => holder[u] \in rows \cap objects
=============================================================================
