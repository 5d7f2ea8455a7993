--------------------------- MODULE PanelStoreProofs ---------------------------
(* Proofs about PanelStore, for any set of changes. *)
EXTENDS PanelStore, TLAPS

-----------------------------------------------------------------------------
(* Types *)

\* A rename keeps the files, the flags and the open files well typed.
LEMMA RenameType ==
    ASSUME TypeOK, NEW a \in Files, NEW b \in Files, Rename(a, b)
    PROVE  /\ file' \in [Files -> Content]
           /\ dirty' \in SUBSET Files
           /\ open' \in [Savers -> Files \cup {"none", "unlinked"}]
           /\ \A s \in Savers : open'[s] = "none" <=> open[s] = "none"
BY DEF TypeOK, Rename, Files, Content, Missing

\* What Open reads is a document.
LEMMA RecoveredType == TypeOK => Recovered \in SUBSET Changes
BY DEF TypeOK, Recovered, Parses, Content, Files, Torn, Missing

\* Every step keeps the types.
LEMMA TypeStep == TypeOK /\ [Next]_vars => TypeOK'
<1> SUFFICES ASSUME TypeOK, [Next]_vars PROVE TypeOK'
  OBVIOUS
<1>1. ASSUME Open PROVE TypeOK'
  BY <1>1, RecoveredType DEF TypeOK, Open, Files, Content, Missing
<1>2. ASSUME NEW c \in Changes, Change(c) PROVE TypeOK'
  BY <1>2 DEF TypeOK, Change, Beside, Goto, Savers
<1>3. ASSUME NEW s \in Savers, Backup(s) PROVE TypeOK'
  <2>1. /\ file' \in [Files -> Content]
        /\ dirty' \in SUBSET Files
        /\ open' \in [Savers -> Files \cup {"none", "unlinked"}]
        /\ \A t \in Savers : open'[t] = "none" <=> open[t] = "none"
    BY <1>3, RenameType DEF Backup, Files, TypeOK
  <2>2. /\ pc' = [pc EXCEPT ![s] = "create"]
        /\ UNCHANGED <<core, mem, buf, change, acked, mishaps>>
    BY <1>3 DEF Backup, Goto
  <2>3. pc[s] = "backup"
    BY <1>3 DEF Backup
  <2> QED BY <2>1, <2>2, <2>3 DEF TypeOK, Savers
<1>4. ASSUME NEW s \in Savers, Create(s) PROVE TypeOK'
  BY <1>4 DEF TypeOK, Create, Goto, Files, Content, Torn
<1>5. ASSUME NEW s \in Savers, Write(s) PROVE TypeOK'
  <2>1. file' \in [Files -> Content] /\ dirty' \in SUBSET Files
    BY <1>5 DEF TypeOK, Write, Content, Document, Torn, Files
  <2> QED BY <1>5, <2>1 DEF TypeOK, Write, Goto
<1>6. ASSUME NEW s \in Savers, Publish(s) PROVE TypeOK'
  <2>1. /\ file' \in [Files -> Content]
        /\ dirty' \in SUBSET Files
        /\ open' \in [Savers -> Files \cup {"none", "unlinked"}]
        /\ \A t \in Savers : open'[t] = "none" <=> open[t] = "none"
    BY <1>6, RenameType DEF Publish, Files
  <2>2. /\ pc' = [pc EXCEPT ![s] = IF s = "method" THEN "answer" ELSE "done"]
        /\ UNCHANGED <<core, mem, buf, change, acked, mishaps>>
        /\ pc[s] = "rename"
    BY <1>6 DEF Publish, Return, Goto
  <2> QED BY <2>1, <2>2 DEF TypeOK, Savers
<1>7. ASSUME NEW s \in Savers, SaveFails(s) PROVE TypeOK'
  BY <1>7 DEF TypeOK, SaveFails, Goto
<1>8. ASSUME Answer PROVE TypeOK'
  BY <1>8 DEF TypeOK, Answer, Goto, Savers
<1>9. ASSUME Close PROVE TypeOK'
  BY <1>9 DEF TypeOK, Close, Beside, Goto, Savers
<1>10. ASSUME Exit \/ Crash PROVE TypeOK'
  BY <1>10 DEF TypeOK, Exit, Crash, ProcessEnds, NoChange, Savers, Files
<1>11. ASSUME PowerFailure PROVE TypeOK'
  BY <1>11 DEF TypeOK, PowerFailure, ProcessEnds, NoChange, Savers, Files, Content, Torn
<1>12. ASSUME WriteBack PROVE TypeOK'
  BY <1>12 DEF TypeOK, WriteBack
<1>13. ASSUME UNCHANGED vars PROVE TypeOK'
  BY <1>13 DEF TypeOK, vars
<1> QED BY <1>1, <1>2, <1>3, <1>4, <1>5, <1>6, <1>7, <1>8, <1>9, <1>10, <1>11, <1>12, <1>13
       DEF Next, Save

\* Files, documents and savers are well typed in every reachable state, whatever overlaps,
\* fails or is lost.
THEOREM StoreTypeCorrect == Spec => []TypeOK
<1>1. Init => TypeOK
  BY DEF Init, TypeOK, Files, Content, Missing, NoChange, Savers
<1> QED BY <1>1, TypeStep, PTL DEF Spec

-----------------------------------------------------------------------------
(* What a step does to the disk, as long as no mishap has happened *)

\* A mishap is remembered.
LEMMA MishapsStay == [Next]_vars => mishaps \subseteq mishaps'
BY DEF Next, Save, Open, Close, Exit, Crash, PowerFailure, ProcessEnds, WriteBack, Answer, Change,
       Beside, Backup, Create, Write, Publish, SaveFails, vars

\* Of a step without a mishap, the savers do not meet and the power takes no document.
LEMMA UnharmedStep ==
    ASSUME TypeOK, [Next]_vars, Unharmed'
    PROVE  /\ Unharmed
           /\ \A c \in Changes : Change(c) => ~Saving("close")
           /\ Close => ~Saving("method")
           /\ PowerFailure => UNCHANGED <<file["main"], file["bak"]>>
<1>1. Unharmed
  BY MishapsStay DEF Unharmed
<1>2. ASSUME NEW c \in Changes, Change(c) PROVE ~Saving("close")
  BY <1>2 DEF Change, Beside, Unharmed
<1>3. ASSUME Close PROVE ~Saving("method")
  BY <1>3 DEF Close, Beside, Unharmed
<1>4. ASSUME PowerFailure PROVE UNCHANGED <<file["main"], file["bak"]>>
  <2>1. PICK lost \in SUBSET dirty :
            /\ file' = [f \in Files |-> IF f \in lost THEN Torn ELSE file[f]]
            /\ mishaps' = IF lost \subseteq {"tmp"} THEN mishaps ELSE mishaps \cup {"power"}
    BY <1>4 DEF PowerFailure
  <2>2. lost \subseteq {"tmp"}
    BY <2>1 DEF Unharmed
  <2> QED BY <2>1, <2>2 DEF Files
<1> QED BY <1>1, <1>2, <1>3, <1>4

\* Publishing replaces what Open reads by the saver's document; no other step changes it.
LEMMA DiskStep ==
    ASSUME TypeOK, Kept, [Next]_vars, Unharmed'
    PROVE  \/ Recovered' = Recovered
           \/ \E s \in Savers : Publish(s) /\ Recovered' = buf[s]
<1> USE DEF Kept
<1>1. ASSUME NEW s \in Savers, Backup(s) PROVE Recovered' = Recovered
  BY <1>1 DEF Backup, Rename, Recovered, Parses, Files, TypeOK, TmpIsOwn, Content, Torn, Missing
<1>2. ASSUME NEW s \in Savers, Create(s) PROVE Recovered' = Recovered
  BY <1>2 DEF Create, Recovered, Parses, Files, TypeOK
<1>3. ASSUME NEW s \in Savers, Write(s) PROVE Recovered' = Recovered
  BY <1>3 DEF Write, Recovered, Parses, Files, TypeOK, TmpIsOwn
<1>4. ASSUME NEW s \in Savers, Publish(s) PROVE Recovered' = buf[s]
  BY <1>4 DEF Publish, Rename, Recovered, Parses, Files, TypeOK, TmpIsOwn, Document
<1>5. ASSUME Open PROVE Recovered' = Recovered
  BY <1>5 DEF Open, Recovered, Parses, Files, TypeOK
<1>6. ASSUME PowerFailure PROVE Recovered' = Recovered
  BY <1>6, UnharmedStep DEF Recovered, Parses
<1>7. ASSUME \/ Exit \/ Crash \/ Close \/ WriteBack \/ Answer \/ UNCHANGED vars
             \/ \E c \in Changes : Change(c)
             \/ \E s \in Savers : SaveFails(s)
      PROVE  Recovered' = Recovered
  BY <1>7 DEF Exit, Crash, Close, WriteBack, Answer, Change, SaveFails, vars, Recovered, Parses
<1> QED BY <1>1, <1>2, <1>3, <1>4, <1>5, <1>6, <1>7 DEF Next, Save

\* No step makes the disk's document smaller.
LEMMA DiskGrows ==
    ASSUME TypeOK, Kept, [Next]_vars, Unharmed'
    PROVE  Recovered \subseteq Recovered'
<1>1. ASSUME NEW s \in Savers, Publish(s) PROVE Recovered \subseteq buf[s]
  <2>1. core # "down" /\ Saving(s)
    BY <1>1 DEF Publish, Kept, OneSaver, TypeOK, Saving, Savers
  <2> QED BY <2>1 DEF Kept, MemoryIsAhead
<1> QED BY <1>1, DiskStep

-----------------------------------------------------------------------------
(* The inductive invariant *)

\* The parts of Kept that speak of the savers are kept.
LEMMA SaversStep ==
    ASSUME TypeOK, Kept, [Next]_vars, Unharmed'
    PROVE  OneSaver' /\ TmpIsOwn'
<1> USE DEF Kept, Savers, Files, Saving
<1>1. ASSUME Open PROVE OneSaver' /\ TmpIsOwn'
  BY <1>1 DEF Open, OneSaver, TmpIsOwn, TypeOK
<1>2. ASSUME NEW c \in Changes, Change(c) PROVE OneSaver' /\ TmpIsOwn'
  BY <1>2, UnharmedStep DEF Change, Goto, OneSaver, TmpIsOwn, TypeOK
<1>3. ASSUME NEW s \in Savers, Backup(s) PROVE OneSaver' /\ TmpIsOwn'
  <2>1. pc' = [pc EXCEPT ![s] = "create"] /\ UNCHANGED <<core, buf>>
    BY <1>3 DEF Backup, Goto
  <2>2. \A t \in Savers : t # s => pc[t] \notin {"backup", "create", "write", "rename"}
    BY <1>3 DEF Backup, OneSaver, TypeOK
  <2>3. file'["main"] # Torn /\ file'["bak"] # Torn
    BY <1>3 DEF Backup, Rename, TmpIsOwn, TypeOK, Torn, Missing
  <2> QED BY <1>3, <2>1, <2>2, <2>3 DEF Backup, OneSaver, TmpIsOwn, TypeOK
<1>4. ASSUME NEW s \in Savers, Create(s) PROVE OneSaver' /\ TmpIsOwn'
  BY <1>4 DEF Create, Goto, OneSaver, TmpIsOwn, TypeOK
<1>5. ASSUME NEW s \in Savers, Write(s) PROVE OneSaver' /\ TmpIsOwn'
  <2>1. open[s] = "tmp" /\ ~Parses("tmp")
    BY <1>5 DEF Write, TmpIsOwn, Parses, Torn
  <2>2. file' = [file EXCEPT !["tmp"] = Document(buf[s])]
    BY <1>5, <2>1 DEF Write
  <2> QED BY <1>5, <2>2 DEF Write, Goto, OneSaver, TmpIsOwn, TypeOK
<1>6. ASSUME NEW s \in Savers, Publish(s) PROVE OneSaver' /\ TmpIsOwn'
  <2>1. file'["main"] = Document(buf[s]) /\ file'["bak"] = file["bak"]
    BY <1>6 DEF Publish, Rename, TmpIsOwn, TypeOK
  <2>2. Document(buf[s]) # Torn
    BY DEF Document, Torn
  <2>3. UNCHANGED <<core, buf>> /\ \A t \in Savers : pc'[t] \notin {"write", "rename"}
    BY <1>6 DEF Publish, Return, Goto, OneSaver, TypeOK
  <2>4. OneSaver'
    BY <1>6, <2>3 DEF Publish, Return, Goto, OneSaver, TypeOK
  <2> QED BY <2>1, <2>2, <2>3, <2>4 DEF TmpIsOwn
<1>7. ASSUME NEW s \in Savers, SaveFails(s) PROVE OneSaver' /\ TmpIsOwn'
  BY <1>7 DEF SaveFails, Goto, OneSaver, TmpIsOwn, TypeOK
<1>8. ASSUME Answer PROVE OneSaver' /\ TmpIsOwn'
  BY <1>8 DEF Answer, Goto, OneSaver, TmpIsOwn, TypeOK
<1>9. ASSUME Close PROVE OneSaver' /\ TmpIsOwn'
  BY <1>9, UnharmedStep DEF Close, Goto, OneSaver, TmpIsOwn, TypeOK
<1>10. ASSUME Exit \/ Crash PROVE OneSaver' /\ TmpIsOwn'
  BY <1>10 DEF Exit, Crash, ProcessEnds, OneSaver, TmpIsOwn, TypeOK
<1>11. ASSUME PowerFailure PROVE OneSaver' /\ TmpIsOwn'
  <2>1. file'["main"] # Torn /\ file'["bak"] # Torn
    BY <1>11, UnharmedStep DEF TmpIsOwn
  <2> QED BY <1>11, <2>1 DEF PowerFailure, ProcessEnds, OneSaver, TmpIsOwn, TypeOK
<1>12. ASSUME WriteBack \/ UNCHANGED vars PROVE OneSaver' /\ TmpIsOwn'
  BY <1>12 DEF WriteBack, vars, OneSaver, TmpIsOwn, TypeOK
<1> QED BY <1>1, <1>2, <1>3, <1>4, <1>5, <1>6, <1>7, <1>8, <1>9, <1>10, <1>11, <1>12 DEF Next, Save

\* The memory stays ahead of the disk, and a method's change stays in what it saves.
LEMMA DocumentsStep ==
    ASSUME TypeOK, Kept, [Next]_vars, Unharmed'
    PROVE  MemoryIsAhead' /\ ChangeIsSaved'
<1> USE DEF Kept, Savers
<1>1. ASSUME Open PROVE MemoryIsAhead' /\ ChangeIsSaved'
  <2>1. Recovered' = Recovered
    BY <1>1 DEF Open, Recovered, Parses, Files, TypeOK
  <2> QED BY <1>1, <2>1 DEF Open, OneSaver, MemoryIsAhead, ChangeIsSaved, Saving, TypeOK
<1>2. ASSUME NEW c \in Changes, Change(c) PROVE MemoryIsAhead' /\ ChangeIsSaved'
  <2>1. Recovered' = Recovered
    BY <1>2 DEF Change, Recovered, Parses
  <2>2. core # "down" /\ ~Saving("close")
    BY <1>2, UnharmedStep DEF Change
  <2>3. /\ mem' = mem \cup {c} /\ buf'["method"] = mem' /\ change' = {c} /\ core' = core
        /\ pc'["method"] = "backup" /\ pc'["close"] = pc["close"]
    BY <1>2, <2>2 DEF Change, Goto, TypeOK
  <2> QED BY <2>1, <2>2, <2>3 DEF MemoryIsAhead, ChangeIsSaved, Saving
<1>3. ASSUME NEW s \in Savers, Backup(s) \/ Create(s) \/ Write(s)
      PROVE  MemoryIsAhead' /\ ChangeIsSaved'
  <2>1. UNCHANGED <<core, mem, buf, change, acked>>
    BY <1>3 DEF Backup, Create, Write
  <2>2. Saving(s) /\ (pc'[s] \in {"create", "write", "rename"})
        /\ \A t \in Savers : t # s => pc'[t] = pc[t]
    BY <1>3 DEF Backup, Create, Write, Goto, Saving, TypeOK
  <2>3. \A t \in Savers : ~Publish(t)
    BY <2>2 DEF Publish, Return, Goto, TypeOK
  <2>4. Recovered' = Recovered
    BY <2>3, DiskStep
  <2> QED BY <2>1, <2>2, <2>4 DEF MemoryIsAhead, ChangeIsSaved, Saving
<1>4. ASSUME NEW s \in Savers, Publish(s) PROVE MemoryIsAhead' /\ ChangeIsSaved'
  <2>1. Recovered' = buf[s]
    BY <1>4 DEF Publish, Rename, Recovered, Parses, Files, TypeOK, TmpIsOwn, Document
  <2>2. core # "down" /\ buf[s] = mem /\ UNCHANGED <<core, mem, buf, change>>
    BY <1>4 DEF Publish, OneSaver, MemoryIsAhead, Saving, TypeOK
  <2>3. \A t \in Savers : ~Saving(t)'
    BY <1>4 DEF Publish, Return, Goto, OneSaver, TypeOK, Saving
  <2>4. MemoryIsAhead'
    BY <2>1, <2>2, <2>3 DEF MemoryIsAhead
  <2>5. CASE s = "method"
    <3>1. change \subseteq buf[s] /\ \E c \in Changes : change = {c}
      BY <1>4, <2>5 DEF Publish, ChangeIsSaved, Saving
    <3> QED BY <2>1, <2>2, <2>3, <2>4, <3>1 DEF ChangeIsSaved
  <2>6. CASE s = "close"
    <3>1. pc'["method"] = pc["method"]
      BY <1>4, <2>6 DEF Publish, Return, Goto, TypeOK
    <3>2. Recovered \subseteq buf[s]
      BY <2>2 DEF MemoryIsAhead
    <3> QED BY <2>1, <2>2, <2>3, <2>4, <3>1, <3>2 DEF ChangeIsSaved
  <2> QED BY <2>5, <2>6
<1>5. ASSUME NEW s \in Savers, SaveFails(s) PROVE MemoryIsAhead' /\ ChangeIsSaved'
  <2>1. Recovered' = Recovered
    BY <1>5 DEF SaveFails, Recovered, Parses
  <2> QED BY <1>5, <2>1 DEF SaveFails, Goto, MemoryIsAhead, ChangeIsSaved, Saving, TypeOK
<1>6. ASSUME Answer PROVE MemoryIsAhead' /\ ChangeIsSaved'
  <2>1. Recovered' = Recovered
    BY <1>6 DEF Answer, Recovered, Parses
  <2> QED BY <1>6, <2>1 DEF Answer, Goto, MemoryIsAhead, ChangeIsSaved, Saving, TypeOK
<1>7. ASSUME Close PROVE MemoryIsAhead' /\ ChangeIsSaved'
  <2>1. Recovered' = Recovered
    BY <1>7 DEF Close, Recovered, Parses
  <2>2. /\ ~Saving("method") /\ pc'["method"] = pc["method"] /\ core = "up"
        /\ buf' = [buf EXCEPT !["close"] = mem] /\ UNCHANGED <<mem, change>>
    BY <1>7, UnharmedStep DEF Close, Goto, TypeOK
  <2> QED BY <2>1, <2>2 DEF MemoryIsAhead, ChangeIsSaved, Saving, TypeOK
<1>8. ASSUME Exit \/ Crash \/ PowerFailure PROVE MemoryIsAhead' /\ ChangeIsSaved'
  BY <1>8 DEF Exit, Crash, PowerFailure, ProcessEnds, MemoryIsAhead, ChangeIsSaved, Saving
<1>9. ASSUME WriteBack \/ UNCHANGED vars PROVE MemoryIsAhead' /\ ChangeIsSaved'
  <2>1. Recovered' = Recovered
    BY <1>9 DEF WriteBack, vars, Recovered, Parses
  <2> QED BY <1>9, <2>1 DEF WriteBack, vars, MemoryIsAhead, ChangeIsSaved, Saving
<1> QED BY <1>1, <1>2, <1>3, <1>4, <1>5, <1>6, <1>7, <1>8, <1>9 DEF Next, Save

\* Only the answer of a method acknowledges.
LEMMA AckedFrame == [Next]_vars /\ ~Answer => acked' = acked
BY DEF Next, Save, Open, Close, Exit, Crash, PowerFailure, ProcessEnds, WriteBack, Change,
       Backup, Create, Write, Publish, SaveFails, vars

\* What has been acknowledged stays on the disk, and only what is there is acknowledged.
LEMMA AckedStep ==
    ASSUME TypeOK, Kept, [Next]_vars, Unharmed'
    PROVE  AckedSurvives'
<1>1. CASE Answer
  <2>1. Recovered' = Recovered /\ change \subseteq Recovered /\ acked' = acked \cup change
    BY <1>1 DEF Answer, Recovered, Parses, Kept, ChangeIsSaved
  <2> QED BY <2>1, UnharmedStep DEF Kept, AckedSurvives
<1>2. CASE ~Answer
  <2>1. acked' = acked
    BY <1>2, AckedFrame
  <2> QED BY <2>1, DiskGrows, UnharmedStep DEF Kept, AckedSurvives
<1> QED BY <1>1, <1>2

\* IInv holds before the first start.
LEMMA IInvInit == Init => IInv
<1> SUFFICES ASSUME Init PROVE IInv
  OBVIOUS
<1>1. TypeOK
  BY DEF Init, TypeOK, Files, Content, Missing, NoChange, Savers
<1>2. OneSaver /\ MemoryIsAhead /\ ChangeIsSaved /\ AckedSurvives
  BY DEF Init, OneSaver, MemoryIsAhead, ChangeIsSaved, Saving, AckedSurvives, Savers
<1>3. TmpIsOwn
  BY DEF Init, TmpIsOwn, Files, Missing, Torn, Savers
<1> QED BY <1>1, <1>2, <1>3 DEF IInv, Kept

\* IInv is kept by every step.
LEMMA IInvStep == IInv /\ [Next]_vars => IInv'
<1> SUFFICES ASSUME IInv, [Next]_vars PROVE IInv'
  OBVIOUS
<1>1. TypeOK'
  BY TypeStep DEF IInv
<1>2. ASSUME Unharmed' PROVE Kept'
  <2>1. TypeOK /\ Kept
    BY <1>2, UnharmedStep DEF IInv
  <2> QED BY <1>2, <2>1, SaversStep, DocumentsStep, AckedStep DEF Kept
<1> QED BY <1>1, <1>2 DEF IInv

\* IInv holds in every reachable state.
THEOREM StoreInvariance == Spec => []IInv
<1>1. IInv /\ [Next]_vars => IInv'
  BY IInvStep
<1> QED BY <1>1, IInvInit, PTL DEF Spec

-----------------------------------------------------------------------------
(* The theorems *)

\* Until the two savers have met, or the power has taken a document, a change reported as saved
\* is read again after any crash, at any system call of any save, of methods and of Close.
THEOREM AckedCorrect == Spec => []AckedSurvives
<1>1. IInv => AckedSurvives
  BY DEF IInv, Kept, AckedSurvives
<1> QED BY <1>1, StoreInvariance, PTL

\* Until then, the next start never fails on the files that a crash leaves behind.
THEOREM OpenCorrect == Spec => []OpenWorks
<1>1. IInv => OpenWorks
  BY DEF IInv, Kept, OpenWorks, Readable, Parses, TypeOK, TmpIsOwn, Content, Files, Torn, Missing
<1> QED BY <1>1, StoreInvariance, PTL

\* Until then, no step takes a change away from what the next start would read.
THEOREM SaveCorrect == Spec => SaveNeverLoses
<1>1. IInv /\ [Next]_vars => [Unharmed' => Recovered \subseteq Recovered']_vars
  BY DiskGrows, UnharmedStep DEF IInv
<1> QED BY <1>1, StoreInvariance, PTL DEF Spec, SaveNeverLoses

\* The store implements the durable set: no file, no name and no crash can be seen through it,
\* until a mishap ends the promise.
THEOREM DurableCorrect == Spec => DurableSpec
<1>1. Init => Durable!Init
  BY DEF Init, Durable!Init, Recovered, Parses, Files, Missing, Unharmed
<1>2. ASSUME IInv, [Next]_vars
      PROVE  Durable!Next \/ UNCHANGED <<Recovered, acked, Unharmed>>
  <2>1. CASE ~Unharmed'
    BY <2>1 DEF Durable!Next, Durable!Breach, Unharmed
  <2>2. CASE Unharmed'
    <3>1. TypeOK /\ Kept /\ Unharmed
      BY <1>2, <2>2, UnharmedStep DEF IInv
    <3>2. UNCHANGED Unharmed
      BY <2>2, <3>1
    <3>3. CASE Answer
      <4>1. PICK c \in Changes : change = {c}
        BY <3>1, <3>3 DEF Answer, Kept, ChangeIsSaved
      <4>2. c \in Recovered /\ acked' = acked \cup {c} /\ Recovered' = Recovered
        BY <3>1, <3>3, <4>1 DEF Answer, Kept, ChangeIsSaved, Recovered, Parses
      <4> QED BY <3>1, <3>2, <4>2 DEF Durable!Next, Durable!Acknowledge
    <3>4. CASE ~Answer
      <4>1. acked' = acked
        BY <1>2, <3>4, AckedFrame
      <4>2. CASE \E s \in Savers : Publish(s) /\ Recovered' = buf[s]
        <5>1. PICK s \in Savers : Publish(s) /\ Recovered' = buf[s]
          BY <4>2
        <5>2. buf[s] \in SUBSET Changes /\ Recovered' = Recovered \cup buf[s]
          BY <1>2, <2>2, <3>1, <5>1, DiskGrows DEF TypeOK
        <5> QED BY <3>1, <3>2, <4>1, <5>2 DEF Durable!Next, Durable!Commit
      <4> QED BY <1>2, <2>2, <3>1, <3>2, <4>1, <4>2, DiskStep
    <3> QED BY <3>3, <3>4
  <2> QED BY <2>1, <2>2
<1> QED BY <1>1, <1>2, StoreInvariance, PTL DEF Spec, DurableSpec, Durable!Spec
=============================================================================
