------------------------------ MODULE PanelStore ------------------------------
(***************************************************************************)
(* The panel's store (internal/db/db.go): one JSON document kept in memory *)
(* and written to data/panel.json after every change, by way of            *)
(* panel.json.tmp and with the previous document kept as panel.json.bak.   *)
(*                                                                         *)
(* The document is the set of changes made to it so far; one action is one *)
(* system call of save.  A method of DB holds DB.mu from its change to its *)
(* return, so all of them are one saver, "method"; the other one, "close", *)
(* is the Close deferred by main, which calls save without the mutex.      *)
(*                                                                         *)
(* Files are open by inode: a saver that has opened the temporary file     *)
(* still writes to the same file when the other one has renamed it.        *)
(***************************************************************************)
CONSTANT Changes  \* the changes that methods of DB make to the document

VARIABLES
    core,    \* "down", "up", or "closing": main is in Close, handlers still run
    mem,     \* DB.data
    file,    \* the three files
    dirty,   \* files whose content the kernel has not written to the disk yet
    pc,      \* a saver's next system call
    buf,     \* the document it has marshalled
    open,    \* the name that the file it has open goes by
    change,  \* the change that the running method has made
    acked,   \* changes whose method has returned without error
    mishaps  \* history: whether both savers were in save at a time ("overlap"), and whether a
             \*   loss of power has lost contents of a document ("power")

vars == <<core, mem, file, dirty, pc, buf, open, change, acked, mishaps>>

-----------------------------------------------------------------------------
Files == {"main", "bak", "tmp"}
Savers == {"method", "close"}

\* A document is what json.Unmarshal accepts; a torn file is not, it was just created or is
\* partly written.
Document(S) == [kind |-> "document", doc |-> S]
Torn == [kind |-> "torn", doc |-> {}]
Missing == [kind |-> "missing", doc |-> {}]
Content == [kind: {"document"}, doc: SUBSET Changes] \cup {Torn, Missing}

Parses(f) == file[f].kind = "document"

NoChange == {}

Saving(s) == pc[s] \in {"backup", "create", "write", "rename"}

TypeOK ==
    /\ mishaps \in SUBSET {"overlap", "power"}
    /\ core \in {"down", "up", "closing"}
    /\ mem \in SUBSET Changes /\ acked \in SUBSET Changes /\ change \in SUBSET Changes
    /\ file \in [Files -> Content]
    /\ dirty \in SUBSET Files
    /\ pc \in [Savers -> {"idle", "backup", "create", "write", "rename", "answer", "done"}]
    /\ buf \in [Savers -> SUBSET Changes]
    /\ open \in [Savers -> Files \cup {"none", "unlinked"}]
    /\ \A s \in Savers : open[s] = "none" <=> pc[s] # "write"
    /\ core # "closing" => pc["close"] = "idle"

Init ==
    /\ core = "down"
    /\ mem = {} /\ acked = {} /\ change = NoChange /\ mishaps = {}
    /\ file = [f \in Files |-> Missing] /\ dirty = {}
    /\ pc = [s \in Savers |-> "idle"]
    /\ buf = [s \in Savers |-> {}]
    /\ open = [s \in Savers |-> "none"]

-----------------------------------------------------------------------------
(* Open *)

\* The document that Open reads: the main file, or the backup for want of a good one.
RecoveredFromBackup ==
    IF Parses("bak") THEN file["bak"].doc
    ELSE IF Parses("main") THEN file["main"].doc ELSE {}

Recovered ==
    IF Parses("main") THEN file["main"].doc
    ELSE IF Parses("bak") THEN file["bak"].doc ELSE {}

\* Open fails on a file that is there and is no document, unless the backup makes up for it.
Readable ==
    \/ Parses("main")
    \/ Parses("bak")
    \/ file["main"] = Missing /\ file["bak"] = Missing

Open ==
    /\ core = "down" /\ Readable
    /\ core' = "up"
    /\ mem' = Recovered
    /\ file' = [file EXCEPT !["tmp"] = Missing]
    /\ dirty' = dirty \ {"tmp"}
    /\ UNCHANGED <<pc, buf, open, change, acked, mishaps>>

-----------------------------------------------------------------------------
(* save *)

Goto(s, step) == pc' = [pc EXCEPT ![s] = step]

\* rename(2): what was called b is gone, what was called a is called b now.
Rename(a, b) ==
    /\ file' = [file EXCEPT ![b] = file[a], ![a] = Missing]
    /\ dirty' = {f \in Files : \/ f = b /\ a \in dirty
                               \/ f \notin {a, b} /\ f \in dirty}
    /\ open' = [s \in Savers |-> CASE open[s] = a -> b
                                   [] open[s] = b -> "unlinked"
                                   [] OTHER -> open[s]]

\* Begins to save beside the other saver, if that is saving.
Beside(s) == mishaps' = IF Saving(s) THEN mishaps \cup {"overlap"} ELSE mishaps

\* A method of DB takes the mutex, changes the document and marshals it.
Change(c) ==
    /\ core \in {"up", "closing"}
    /\ pc["method"] = "idle" /\ c \notin mem
    /\ Beside("close")
    /\ mem' = mem \cup {c}
    /\ change' = {c}
    /\ buf' = [buf EXCEPT !["method"] = mem']
    /\ Goto("method", "backup")
    /\ UNCHANGED <<core, file, dirty, open, acked>>

\* The present file becomes the backup; an error of this rename is ignored.
Backup(s) ==
    /\ pc[s] = "backup"
    /\ Goto(s, "create")
    /\ \/ file["main"] # Missing /\ Rename("main", "bak")
       \/ UNCHANGED <<file, dirty, open>>
    /\ UNCHANGED <<core, mem, buf, change, acked, mishaps>>

\* os.WriteFile creates or empties the temporary file ...
CreateInPlace(s) ==
    /\ pc[s] = "create"
    /\ Goto(s, "write")
    /\ file' = [file EXCEPT !["main"] = Torn]
    /\ dirty' = dirty \cup {"main"}
    /\ open' = [open EXCEPT ![s] = "main"]
    /\ UNCHANGED <<core, mem, buf, change, acked, mishaps>>

Create(s) ==
    /\ pc[s] = "create"
    /\ Goto(s, "write")
    /\ file' = [file EXCEPT !["tmp"] = Torn]
    /\ dirty' = dirty \cup {"tmp"}
    /\ open' = [open EXCEPT ![s] = "tmp"]
    /\ UNCHANGED <<core, mem, buf, change, acked, mishaps>>

\* ... writes it, over what the other saver may have written to the same file, and closes it.
WriteUnclosed(s) ==
    /\ pc[s] = "write"
    /\ Goto(s, "rename")
    /\ file' = [file EXCEPT ![open[s]] = Document(buf[s])]
    /\ dirty' = dirty \cup ({open[s]} \cap Files)
    /\ UNCHANGED <<core, mem, open, buf, change, acked, mishaps>>

Write(s) ==
    /\ pc[s] = "write"
    /\ Goto(s, "rename")
    /\ IF open[s] = "unlinked" THEN UNCHANGED <<file, dirty>>
       ELSE /\ dirty' = dirty \cup {open[s]}
            /\ \/ file' = [file EXCEPT ![open[s]] = Document(buf[s])]
               \/ Parses(open[s]) /\ file' = [file EXCEPT ![open[s]] = Torn]
    /\ open' = [open EXCEPT ![s] = "none"]
    /\ UNCHANGED <<core, mem, buf, change, acked, mishaps>>

\* A method answers its caller, Close returns to main.
Return(s) == Goto(s, IF s = "method" THEN "answer" ELSE "done")

Publish(s) ==
    /\ pc[s] = "rename" /\ file["tmp"] # Missing
    /\ Rename("tmp", "main")
    /\ Return(s)
    /\ UNCHANGED <<core, mem, buf, change, acked, mishaps>>

\* The disk is full or broken, or the other saver has renamed the temporary file: save
\* returns an error, the change stays in memory.
SaveFails(s) ==
    /\ pc[s] \in {"create", "write", "rename"}
    /\ Goto(s, IF s = "method" THEN "idle" ELSE "done")
    /\ open' = [open EXCEPT ![s] = "none"]
    /\ UNCHANGED <<core, mem, file, dirty, buf, change, acked, mishaps>>

Answer ==
    /\ pc["method"] = "answer"
    /\ Goto("method", "idle")
    /\ acked' = acked \cup change
    /\ UNCHANGED <<core, mem, file, dirty, buf, open, change, mishaps>>

Save(s) == Backup(s) \/ Create(s) \/ Write(s) \/ Publish(s) \/ SaveFails(s)

-----------------------------------------------------------------------------
(* The process and the machine *)

\* ListenAndServe returns as soon as the server is told to shut down: main runs its deferred
\* Close, and nobody waits for the handlers.
Close ==
    /\ core = "up"
    /\ core' = "closing"
    /\ Beside("method")
    /\ buf' = [buf EXCEPT !["close"] = mem]
    /\ Goto("close", "backup")
    /\ UNCHANGED <<mem, file, dirty, open, change, acked>>

ProcessEnds ==
    /\ core' = "down" /\ mem' = {} /\ change' = NoChange
    /\ pc' = [s \in Savers |-> "idle"]
    /\ buf' = [s \in Savers |-> {}]
    /\ open' = [s \in Savers |-> "none"]
    /\ UNCHANGED acked

Exit ==
    core = "closing" /\ pc["close"] = "done" /\ ProcessEnds /\ UNCHANGED <<file, dirty, mishaps>>

\* Killed, or os.Exit by the signal handler, at any step.
Crash == core # "down" /\ ProcessEnds /\ UNCHANGED <<file, dirty, mishaps>>

\* Renames are in the journal, contents need not be on the disk: save never syncs a file.
PowerFailure ==
    /\ ProcessEnds
    /\ \E lost \in SUBSET dirty :
          /\ file' = [f \in Files |-> IF f \in lost THEN Torn ELSE file[f]]
          /\ mishaps' = IF lost \subseteq {"tmp"} THEN mishaps ELSE mishaps \cup {"power"}
    /\ dirty' = {}

WriteBack ==
    /\ \E f \in dirty : dirty' = dirty \ {f}
    /\ UNCHANGED <<core, mem, file, pc, buf, open, change, acked, mishaps>>

Next ==
    \/ Open \/ Close \/ Exit \/ Crash \/ PowerFailure \/ WriteBack \/ Answer
    \/ \E c \in Changes : Change(c)
    \/ \E s \in Savers : Save(s)

Spec == Init /\ [][Next]_vars

-----------------------------------------------------------------------------
(* Safety *)

\* Main has never closed the store while a method was saving, or a method begun to save while
\* main did, and no loss of power has taken the contents of panel.json or its backup.
Unharmed == mishaps = {}

\* A change whose method has reported success is read again by whatever panel starts next, at
\* whichever system call of a later save the process is killed or the disk gives an error, and
\* whichever handlers go on before, after and beside the Close of main, as long as the two
\* saves do not overlap.
AckedSurvives == Unharmed => acked \subseteq Recovered

\* No moment leaves files behind on which the next start fails (Open returns an error).
OpenWorks == Unharmed => Readable

\* Whatever fails, no step takes a change away from what the next start would read: the old
\* file is kept as .bak until the new one is in place.
SaveNeverLoses == [][Unharmed' => Recovered \subseteq Recovered']_vars

\* Package comment of db.go: kept in memory, and written atomically on every change.  An
\* orderly end of the panel does not take back what was acknowledged.
CloseKeepsAcked == "power" \notin mishaps => acked \subseteq Recovered

-----------------------------------------------------------------------------
(* The inductive invariant behind them *)

\* Nobody is in a save while no core runs, and never both savers.
OneSaver ==
    /\ core = "down" => pc["method"] = "idle"
    /\ ~(Saving("method") /\ Saving("close"))

\* The disk is never ahead of the memory, and a saver has marshalled the memory as it is.
MemoryIsAhead ==
    core # "down" => Recovered \subseteq mem /\ \A s \in Savers : Saving(s) => buf[s] = mem

\* Only the temporary file is ever torn, and it belongs to the one saver.
TmpIsOwn ==
    /\ file["main"] # Torn /\ file["bak"] # Torn
    /\ \A s \in Savers : /\ pc[s] = "write" => open[s] = "tmp" /\ file["tmp"] = Torn
                         /\ pc[s] = "rename" => file["tmp"] = Document(buf[s])

\* A method makes one change; it is in what the method saves, and on the disk when it answers.
ChangeIsSaved ==
    /\ pc["method"] # "idle" => \E c \in Changes : change = {c}
    /\ Saving("method") => change \subseteq buf["method"]
    /\ pc["method"] = "answer" => change \subseteq Recovered

Kept == OneSaver /\ MemoryIsAhead /\ TmpIsOwn /\ ChangeIsSaved /\ AckedSurvives

IInv == TypeOK /\ (Unharmed => Kept)

-----------------------------------------------------------------------------
(* The promise that the store implements until a mishap *)

Durable == INSTANCE DurableSet WITH disk <- Recovered, kept <- Unharmed

DurableSpec == Durable!Spec

=============================================================================
