------------------------------- MODULE Files -------------------------------
(***************************************************************************)
(* The file primitives under every store (src/src/app/store/io.js): the    *)
(* temp-file, fsync, rename, directory-fsync write, the read that sets a   *)
(* damaged file aside, the sweep of orphaned temp files at start-up, and   *)
(* the read-modify-write of one document by its store (settings, accepted  *)
(* host keys, key bookmarks, definitions).                                 *)
(*                                                                         *)
(* The process may be killed and the machine may lose power between any    *)
(* two system calls.  A kill keeps what the file system shows; a power     *)
(* loss keeps, of each name, one of the contents that may have reached the *)
(* disk, and of an unflushed file nothing that parses.                     *)
(*                                                                         *)
(* Abstraction: a document is the set of items it holds (settings keys,    *)
(* accepted hosts, bookmarks, definitions); Torn is any content that does  *)
(* not parse.  The schema stamp of migrations.js is left out.              *)
(***************************************************************************)
EXTENDS Naturals

CONSTANTS
  Items,      \* the items a document may hold
  Missing,    \* the content of a name that resolves to no file
  Torn,       \* the content of a file that does not parse
  DirSyncs,   \* the platform lets a directory be fsync'd
  MaxTemps    \* bound: writes per process life

ASSUME ItemsAssumption ==
  /\ Missing # Torn
  /\ Missing \notin SUBSET Items
  /\ Torn \notin SUBSET Items
  /\ DirSyncs \in BOOLEAN
  /\ MaxTemps \in Nat

VARIABLES
  shown,   \* what the name resolves to for a running process
  kept,    \* what it may resolve to after a power loss
  temps,   \* temp name (its counter) -> [data, flushed]
  count,   \* tempCounter, process-local
  pc,      \* where the current store call is; "down" when no process runs
  request, \* its argument, [adds, item]
  next,    \* the document it is about to write
  owed     \* history: the documents the callers may expect to find

fileVars == <<shown, kept, temps, count, pc, request, next, owed>>

Content == (SUBSET Items) \cup {Missing, Torn}

\* What a store makes of a content: readJSON gives null for a missing and for
\* a damaged file, and every store takes null for an empty document.
ItemsOf(c) == IF c \in {Missing, Torn} THEN {} ELSE c

Requests == [adds : BOOLEAN, item : Items]

FilesInit ==
  /\ shown = Missing
  /\ kept = {Missing}
  /\ temps = [n \in {} |-> Missing]
  /\ count = 0
  /\ pc = "idle"
  /\ request \in Requests
  /\ next = {}
  /\ owed = {{}}

-----------------------------------------------------------------------------
\* A store call.  It is synchronous: the next begins when this one returns.
Call(c) ==
  /\ pc = "idle"
  /\ count < MaxTemps
  /\ request' = c
  /\ pc' = "load"
  /\ UNCHANGED <<shown, kept, temps, count, next, owed>>

\* Mutant: any read error counts as an empty document.
Load_Mutant ==
  /\ pc = "load"
  /\ \E base \in {ItemsOf(shown), {}} :
       next' = IF request.adds THEN base \cup {request.item} ELSE base \ {request.item}
  /\ pc' = "open"
  /\ UNCHANGED <<shown, kept, temps, count, request, owed>>

\* readJSON: a file that does not parse is renamed aside, if that works, and
\* counts as empty either way; any read error but ENOENT ends the call.
\* Forgetting an item that is not there returns without a write.
Load ==
  /\ pc = "load"
  /\ \/ pc' = "idle" /\ UNCHANGED <<shown, kept, next>>
     \/ \E aside \in BOOLEAN :
          LET base  == ItemsOf(shown)
              moved == shown = Torn /\ aside
          IN /\ shown' = IF moved THEN Missing ELSE shown
             /\ kept' = IF moved THEN kept \cup {Missing} ELSE kept
             /\ next' = IF request.adds THEN base \cup {request.item}
                                        ELSE base \ {request.item}
             /\ pc' = IF request.adds \/ request.item \in base THEN "open" ELSE "idle"
  /\ UNCHANGED <<temps, count, request, owed>>

\* The temp file is created empty under the next name of this process; an
\* orphan of an earlier process that has that name is truncated.
OpenTemp ==
  /\ pc = "open"
  /\ count' = count + 1
  /\ temps' = [n \in DOMAIN temps \cup {count'} |->
                 IF n = count' THEN [data |-> Torn, flushed |-> FALSE]
                               ELSE temps[n]]
  /\ pc' = "fill"
  /\ UNCHANGED <<shown, kept, request, next, owed>>

FillTemp ==
  /\ pc = "fill"
  /\ temps' = [temps EXCEPT ![count].data = next]
  /\ pc' = "flush"
  /\ UNCHANGED <<shown, kept, count, request, next, owed>>

FlushTemp ==
  /\ pc = "flush"
  /\ temps' = [temps EXCEPT ![count].flushed = TRUE]
  /\ pc' = "rename"
  /\ UNCHANGED <<shown, kept, count, request, next, owed>>

Without(n) == [m \in DOMAIN temps \ {n} |-> temps[m]]

\* What a power loss leaves of a temp file.
Surviving(f) == IF f.flushed THEN f.data ELSE Torn

\* renameSync: the new document is visible; whether the rename outlives a
\* power loss is open until the directory is flushed.
Rename ==
  /\ pc = "rename"
  /\ shown' = temps[count].data
  /\ kept' = kept \cup {Surviving(temps[count])}
  /\ temps' = Without(count)
  /\ owed' = owed \cup {next}
  /\ pc' = "sync"
  /\ UNCHANGED <<count, request, next>>

\* Mutant: the directory is not flushed.
SyncDir_Mutant ==
  /\ pc = "sync"
  /\ owed' = IF DirSyncs THEN {next} ELSE owed \cup {next}
  /\ pc' = "idle"
  /\ UNCHANGED <<shown, kept, temps, count, request, next>>

\* fsyncDir, best effort, and the return of the call.
SyncDir ==
  /\ pc = "sync"
  /\ kept' = IF DirSyncs THEN {shown} ELSE kept
  /\ owed' = IF DirSyncs THEN {next} ELSE owed \cup {next}
  /\ pc' = "idle"
  /\ UNCHANGED <<shown, temps, count, request, next>>

\* A system call before the rename fails (disk full, permissions): the temp
\* file is unlinked, if that works, and the caller gets the error.
Fail ==
  /\ pc \in {"open", "fill", "flush", "rename"}
  /\ \/ temps' = temps
     \/ pc # "open" /\ temps' = Without(count)
  /\ pc' = "idle"
  /\ UNCHANGED <<shown, kept, count, request, next, owed>>

-----------------------------------------------------------------------------
Kill ==
  /\ pc # "down"
  /\ pc' = "down"
  /\ UNCHANGED <<shown, kept, temps, count, request, next, owed>>

PowerLoss ==
  /\ pc' = "down"
  /\ \E c \in kept : shown' = c /\ kept' = {c}
  /\ temps' = [n \in DOMAIN temps |->
                 [data |-> Surviving(temps[n]), flushed |-> TRUE]]
  /\ UNCHANGED <<count, request, next, owed>>

\* Stores' constructor: temp files older than five seconds are removed, the
\* younger ones stay until another start; the temp counter starts again.
Restart ==
  /\ pc = "down"
  /\ \E young \in SUBSET DOMAIN temps :
       temps' = [n \in young |-> temps[n]]
  /\ count' = 0
  /\ pc' = "idle"
  /\ owed' = {ItemsOf(c) : c \in kept}
  /\ UNCHANGED <<shown, kept, request, next>>

\* The file is damaged from outside while no call runs.
Damage ==
  /\ pc \in {"idle", "down"}
  /\ shown' = Torn
  /\ kept' = {Torn}
  /\ owed' = {{}}
  /\ UNCHANGED <<temps, count, pc, request, next>>

FilesNext ==
  \/ \E c \in Requests : Call(c)
  \/ Load
  \/ OpenTemp
  \/ FillTemp
  \/ FlushTemp
  \/ Rename
  \/ SyncDir
  \/ Fail
  \/ Kill
  \/ PowerLoss
  \/ Restart
  \/ Damage

FilesSpec == FilesInit /\ [][FilesNext]_fileVars

-----------------------------------------------------------------------------
Temp == [data : Content, flushed : BOOLEAN]

\* Types of the variables.
FilesTypeOK ==
  /\ shown \in Content
  /\ kept \in SUBSET Content
  /\ DOMAIN temps \subseteq 1 .. MaxTemps
  /\ \A n \in DOMAIN temps : temps[n] \in Temp
  /\ count \in 0 .. MaxTemps
  /\ pc \in {"idle", "load", "open", "fill", "flush", "rename", "sync", "down"}
  /\ request \in Requests
  /\ next \in SUBSET Items
  /\ owed \in SUBSET SUBSET Items

\* An acknowledged change is there after any kill and, where directories can be
\* flushed, after any power loss; a call that failed or was cut off has changed
\* nothing or everything it meant to (io.js: "an fsync of both the file and its
\* directory so a rename survives a crash").
AckedSurvives ==
  /\ ItemsOf(shown) \in owed
  /\ \A c \in kept : ItemsOf(c) \in owed

Durable == INSTANCE DurableDoc
             WITH doc <- ItemsOf(shown), back <- {ItemsOf(c) : c \in kept}

\* The write protocol implements the document that changes whole.
ImplementsDurableDoc == Durable!Spec
=============================================================================
