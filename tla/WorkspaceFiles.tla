----------------------------- MODULE WorkspaceFiles -----------------------------
(***************************************************************************)
(* A file of the workspace that harness tools read, write and patch         *)
(* (tools/builtins.py) while other programs save it: the model reads text   *)
(* and a hash, the call is fingerprinted when it is asked for and again     *)
(* under the resource lock, the write compares hashes twice and replaces    *)
(* the file by a temporary one.                                             *)
(*                                                                         *)
(* A content is the set of the edits in it: a call writes the text it read  *)
(* with its own edit added, and a hash tells any two contents apart.  The   *)
(* executors run without an await, but other programs and an older worker   *)
(* that is still ending run in processes of their own, so every look at     *)
(* the file is a step.  A call that loses its fence leaves as a death does. *)
(***************************************************************************)
EXTENDS Integers, FiniteSets

CONSTANTS
    WriteCall,         \* calls that change the file, each with an edit of its own
    PatchCall,         \* those of apply_patch; the others are write_file's
    OtherEdit,         \* edits of other programs
    NoCall,            \* nobody holds the resource lock
    MaxFileSaves       \* bound: saves by other programs

ASSUME FilesAssumption ==
    /\ PatchCall \subseteq WriteCall /\ WriteCall \cap OtherEdit = {}
    /\ IsFiniteSet(WriteCall) /\ NoCall \notin WriteCall /\ MaxFileSaves \in Nat

VARIABLES
    file,              \* the content
    stamp,             \* what stat tells of it: changes with every save
    seen,              \* what read_file returned for the call: text and hash
    call,              \* where each call is, and its ledger row
    resourceLock,      \* the lock file of the path
    replaced,          \* calls that replaced the file
    dropped,           \* edits a call removed from the file
    raced,             \* edits saved between two looks nothing compares
    otherSaves

fvars == <<file, stamp, seen, call, resourceLock, replaced, dropped, raced, otherSaves>>

EditId == WriteCall \cup OtherEdit
NotRead == [at |-> "none", text |-> {}, hash |-> {}]
NotCalled == [at |-> "none", state |-> "none", print |-> 0, text |-> {}, before |-> {},
              intent |-> FALSE, artifact |-> TRUE]

WriterAt(c, point) == call[c].at = point
Fails(c) == [call[c] EXCEPT !.at = "over", !.state = "failed"]
Unlocks(c) == resourceLock' = NoCall

------------------------------------------------------------------------------
\* Reading: the text first, its hash from another look

ReadText(c) ==
    /\ seen[c].at = "none"
    /\ seen' = [seen EXCEPT ![c] = [at |-> "text", text |-> file, hash |-> {}]]
    /\ UNCHANGED <<file, stamp, call, resourceLock, replaced, dropped, raced, otherSaves>>

ReadHash(c) ==
    /\ seen[c].at = "text"
    /\ seen' = [seen EXCEPT ![c].at = "read", ![c].hash = file]
    /\ UNCHANGED <<file, stamp, call, resourceLock, replaced, dropped, raced, otherSaves>>

\* The looks of a call between which nothing is compared: the text and the hash of a read;
\* a patch's text and the first hash; the last hash and the replacement.
BetweenLooks == {c \in WriteCall : seen[c].at = "text" \/ call[c].at \in {"patched", "checked"}}

\* Another program saves the file with an edit of its own, or without one it had made.
OtherSaves ==
    /\ otherSaves < MaxFileSaves
    /\ \E e \in OtherEdit : file' = IF e \in file THEN file \ {e} ELSE file \cup {e}
    /\ stamp' = stamp + 1 /\ otherSaves' = otherSaves + 1
    /\ raced' = [c \in WriteCall |->
                    IF c \in BetweenLooks THEN raced[c] \cup (file' \ file) ELSE raced[c]]
    /\ UNCHANGED <<seen, call, resourceLock, replaced, dropped>>

------------------------------------------------------------------------------
\* ToolGateway.execute around the executor

Prepare(c) ==
    /\ seen[c].at = "read" /\ WriterAt(c, "none")
    /\ call' = [call EXCEPT ![c].at = "prepared", ![c].state = "prepared", ![c].print = stamp]
    /\ UNCHANGED <<file, stamp, seen, resourceLock, replaced, dropped, raced, otherSaves>>

\* RESOURCE_BUSY leaves as an exception, which ends the run and cancels what is prepared.
LockBusy(c) ==
    /\ WriterAt(c, "prepared") /\ resourceLock /= NoCall
    /\ call' = [call EXCEPT ![c].at = "over", ![c].state = "cancelled"]
    /\ UNCHANGED <<file, stamp, seen, resourceLock, replaced, dropped, raced, otherSaves>>

\* BINDING_CHANGED: device, inode, size or time differ from those the call was asked for with.
BindingChanged(c) ==
    /\ WriterAt(c, "prepared") /\ resourceLock = NoCall /\ stamp /= call[c].print
    /\ call' = [call EXCEPT ![c] = Fails(c)]
    /\ UNCHANGED <<file, stamp, seen, resourceLock, replaced, dropped, raced, otherSaves>>

\* The lock is held from here to the ledger's result.
Starts(c) ==
    /\ WriterAt(c, "prepared") /\ resourceLock = NoCall /\ stamp = call[c].print
    /\ resourceLock' = c
    /\ call' = [call EXCEPT ![c].at = IF c \in PatchCall THEN "started" ELSE "opened",
                            ![c].state = "running", ![c].text = seen[c].text]
    /\ UNCHANGED <<file, stamp, seen, replaced, dropped, raced, otherSaves>>

------------------------------------------------------------------------------
\* BuiltinTools.patch and write

\* PATCH_AMBIGUOUS: the old text is not there exactly once.
PatchFails(c) ==
    /\ WriterAt(c, "started")
    /\ call' = [call EXCEPT ![c] = Fails(c)] /\ Unlocks(c)
    /\ UNCHANGED <<file, stamp, seen, replaced, dropped, raced, otherSaves>>

PatchReads(c) ==
    /\ WriterAt(c, "started")
    /\ call' = [call EXCEPT ![c].at = "patched", ![c].text = file]
    /\ UNCHANGED <<file, stamp, seen, resourceLock, replaced, dropped, raced, otherSaves>>

After(c) == call[c].text \cup {c}

\* FILE_VERSION_CONFLICT, before anything is written.
Conflicts(c) ==
    /\ \/ call[c].at \in {"opened", "patched"} /\ file /= seen[c].hash
       \/ WriterAt(c, "intended") /\ file /= call[c].before
    /\ call' = [call EXCEPT ![c] = Fails(c)] /\ Unlocks(c)
    /\ UNCHANGED <<file, stamp, seen, replaced, dropped, raced, otherSaves>>

\* The file has the hash the model knows.
FirstLook(c) ==
    /\ call[c].at \in {"opened", "patched"} /\ file = seen[c].hash
    /\ call' = [call EXCEPT ![c].at = "hashed", ![c].before = file]
    /\ UNCHANGED <<file, stamp, seen, resourceLock, replaced, dropped, raced, otherSaves>>

\* The temporary file is written; both hashes go to the ledger before the file changes.
RecordsIntent(c) ==
    /\ WriterAt(c, "hashed")
    /\ call' = [call EXCEPT ![c].at = "intended", ![c].intent = TRUE]
    /\ UNCHANGED <<file, stamp, seen, resourceLock, replaced, dropped, raced, otherSaves>>

\* A write that trusts its first look.
SecondLookSkipped(c) ==
    /\ WriterAt(c, "intended")
    /\ call' = [call EXCEPT ![c].at = "checked"]
    /\ UNCHANGED <<file, stamp, seen, resourceLock, replaced, dropped, raced, otherSaves>>

SecondLook(c) ==
    /\ WriterAt(c, "intended") /\ file = call[c].before
    /\ call' = [call EXCEPT ![c].at = "checked"]
    /\ UNCHANGED <<file, stamp, seen, resourceLock, replaced, dropped, raced, otherSaves>>

\* os.replace: the path now names the temporary file.
Replaces(c) ==
    /\ WriterAt(c, "checked")
    /\ file' = After(c) /\ stamp' = stamp + 1
    /\ replaced' = replaced \cup {c}
    /\ dropped' = [dropped EXCEPT ![c] = file \ After(c)]
    /\ raced' = [d \in WriteCall |-> IF d /= c /\ d \in BetweenLooks
                                     THEN raced[d] \cup (After(c) \ file) ELSE raced[d]]
    /\ call' = [call EXCEPT ![c].at = "saving"]
    /\ UNCHANGED <<seen, resourceLock, otherSaves>>

\* The result's artifact: a HarnessError of the artifact store is recorded as a failed call,
\* another exception (of the replacement too) as an unknown one.
Finishes(c) ==
    /\ call[c].at \in {"checked", "saving"}
    /\ \/ WriterAt(c, "saving")
          /\ call' = [call EXCEPT ![c].at = "over", ![c].state = "succeeded"]
       \/ WriterAt(c, "saving")
          /\ call' = [call EXCEPT ![c].at = "over", ![c].state = "failed", ![c].artifact = FALSE]
       \/ call' = [call EXCEPT ![c].at = "over", ![c].state = "unknown"]
    /\ Unlocks(c)
    /\ UNCHANGED <<file, stamp, seen, replaced, dropped, raced, otherSaves>>

------------------------------------------------------------------------------
\* The worker dies, releasing the lock; its temporary file stays behind.
WriterDies(c) ==
    /\ call[c].state = "running" /\ call[c].at /= "dead"
    /\ call' = [call EXCEPT ![c].at = "dead"]
    /\ resourceLock' = IF resourceLock = c THEN NoCall ELSE resourceLock
    /\ UNCHANGED <<file, stamp, seen, replaced, dropped, raced, otherSaves>>

\* Recovery that takes a recorded intent for the deed.
RecoversFromIntent(c) ==
    /\ WriterAt(c, "dead")
    /\ call' = [call EXCEPT ![c].at = "over",
                            ![c].state = IF call[c].intent THEN "succeeded" ELSE "unknown"]
    /\ UNCHANGED <<file, stamp, seen, resourceLock, replaced, dropped, raced, otherSaves>>

\* Scheduler.recover: the file has the intended hash, or a person must look.
Recovers(c) ==
    /\ WriterAt(c, "dead")
    /\ call' = [call EXCEPT ![c].at = "over",
                  ![c].state = IF call[c].intent /\ file = After(c) THEN "succeeded" ELSE "unknown"]
    /\ UNCHANGED <<file, stamp, seen, resourceLock, replaced, dropped, raced, otherSaves>>

FilesInit ==
    /\ file = {} /\ stamp = 0
    /\ seen = [c \in WriteCall |-> NotRead]
    /\ call = [c \in WriteCall |-> NotCalled]
    /\ resourceLock = NoCall
    /\ replaced = {}
    /\ dropped = [c \in WriteCall |-> {}] /\ raced = [c \in WriteCall |-> {}]
    /\ otherSaves = 0

FilesNext ==
    \/ \E c \in WriteCall :
         \/ ReadText(c) \/ ReadHash(c) \/ Prepare(c) \/ LockBusy(c) \/ BindingChanged(c) \/ Starts(c)
         \/ PatchFails(c) \/ PatchReads(c) \/ Conflicts(c) \/ FirstLook(c) \/ RecordsIntent(c)
         \/ SecondLook(c) \/ Replaces(c) \/ Finishes(c) \/ WriterDies(c) \/ Recovers(c)
    \/ OtherSaves

FilesSpec == FilesInit /\ [][FilesNext]_fvars

------------------------------------------------------------------------------
\* File, calls and lock keep their shapes (BuiltinTools.write).
FilesTypeOK ==
    /\ file \subseteq EditId /\ stamp \in 0 .. MaxFileSaves + Cardinality(WriteCall)
    /\ seen \in [WriteCall -> [at : {"none", "text", "read"}, text : SUBSET EditId, hash : SUBSET EditId]]
    /\ \A c \in WriteCall :
         /\ call[c].at \in {"none", "prepared", "started", "patched", "opened", "hashed", "intended",
                            "checked", "saving", "dead", "over"}
         /\ call[c].state \in {"none", "prepared", "running", "succeeded", "failed", "unknown", "cancelled"}
    /\ resourceLock \in WriteCall \cup {NoCall}

\* BuiltinTools.write, patch, the resource lock: a call removes an edit it had not read, of
\* another program or another call, only if that was saved between two looks nothing compares.
NoEditLost == \A c \in WriteCall : dropped[c] \subseteq raced[c]

\* ToolGateway.execute, Scheduler.recover: a write told to have succeeded replaced the file, and
\* one told to have failed did not, unless storing its result's artifact failed.
WriteOutcomeTrue ==
    \A c \in WriteCall :
        /\ call[c].state = "succeeded" => c \in replaced
        /\ call[c].state \in {"failed", "cancelled"} => c \notin replaced \/ ~call[c].artifact
=============================================================================
