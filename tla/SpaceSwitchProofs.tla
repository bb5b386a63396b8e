------------------------- MODULE SpaceSwitchProofs -------------------------
(***************************************************************************)
(* Proofs about SpaceSwitch for every set of revisions and every bound.    *)
(***************************************************************************)
EXTENDS SpaceSwitch, TLAPS

\* What a revision writes into a Codex file is always a content.
LEMMA ImageType ==
  ASSUME NEW r \in Rev, NEW f \in File
  PROVE  /\ f # "gateway" => Image(r, f) \in Content
         /\ r \in Router => Image(r, f) \in Content
BY ConstantsOK DEF Rev, File, Image, Content, Official

LEMMA ProtectedType == Protected \in Official /\ Protected \in Rev
BY ConstantsOK DEF Protected, Official, Rev, Content

LEMMA NoTxType == NoTx \in Tx /\ NoTx.stage = "none" /\ NoTx.target = Protected /\ NoFiles \in Hashes
<1>1. NoFiles \in Hashes
  BY DEF NoFiles, Hashes
<1>2. QED
  BY <1>1, ProtectedType DEF NoTx, Tx, Stage, Pid

\* The first state is well typed.
LEMMA InitTypeOK == Init => TypeOK
<1> SUFFICES ASSUME Init PROVE TypeOK
  OBVIOUS
<1>1. active \in Rev /\ integ \in Rev /\ revs \subseteq Rev
  BY ProtectedType DEF Init, Rev
<1>2. file \in [File -> Content]
  BY ProtectedType DEF Init, File, Content, Official
<1>3. svc \in Service
  BY ConstantsOK, <1>2 DEF Init, Service, Down, Content
<1>4. tx \in Tx /\ {active, tx.target, Protected} \subseteq revs
  BY NoTxType DEF Init
<1>5. QED
  BY <1>1, <1>2, <1>3, <1>4 DEF Init, TypeOK, Pc, Pid

\* The service record, however the process ends up.
LEMMA ServiceType ==
  ASSUME TypeOK
  PROVE  Down \in Service /\ Started \in Service
<1>1. ("gateway" \in byUser) \in BOOLEAN
  OBVIOUS
<1>2. file["gateway"] \in Content
  BY DEF TypeOK, File
<1>3. QED
  BY <1>1, <1>2 DEF Down, Started, Service

\* Every step keeps the types, one step per action.
LEMMA StepTypeOK ==
  ASSUME TypeOK, LockHeld, Step
  PROVE  TypeOK'
<1> USE DEF TypeOK, Goto
<1>1. CASE ReadSource
  <2>1. tx' \in Tx
    BY <1>1, NoTxType DEF ReadSource, Tx, Stage, Hashes, Pid, File
  <2>2. {active, tx.target, Protected}' \subseteq revs'
    BY <1>1, NoTxType DEF ReadSource, Tx
  <2>3. pc' \in Pc /\ integ' \in Rev
    BY <1>1, ProtectedType DEF ReadSource, Pc, Tx, AttemptSteps, RollbackSteps, RescueSteps, world, ctl
  <2> QED
    BY <2>1, <2>2, <2>3, <1>1 DEF ReadSource, Pid, world, ctl, bounds, ghosts
<1>2. CASE Prepare
  <2>1. tx' \in Tx
    <3>1. tx.src["gateway"] \in Content /\ (tx.target \in Router => tx.target \in Content)
      BY <1>2 DEF Prepare, LockHeld, File, Content
    <3>2. tx.exp \in Hashes /\ tx \in Tx
      BY DEF Tx
    <3> DEFINE c == IF tx.target \in Router THEN tx.target ELSE tx.src["gateway"]
    <3>3. c \in Content
      BY <3>1
    <3>4. tx' = [tx EXCEPT !.stage = "prepared", !.snapshot = tx.src["gateway"], !.exp["gateway"] = c]
      BY <1>2 DEF Prepare
    <3> HIDE DEF c
    <3>5. QED
      BY <3>1, <3>2, <3>3, <3>4 DEF Tx, Stage, Hashes
  <2>2. {active, tx.target, Protected}' \subseteq revs'
    BY <1>2, NoTxType DEF Prepare, Tx
  <2>3. pc' \in Pc /\ integ' \in Rev
    BY <1>2, ProtectedType DEF Prepare, Pc, Tx, AttemptSteps, RollbackSteps, RescueSteps, world, ctl
  <2> QED
    BY <2>1, <2>2, <2>3, <1>2 DEF Prepare, Pid, world, ctl, bounds, ghosts
<1>3. CASE PrepareFails
  <2>1. tx' \in Tx
    BY <1>3, NoTxType DEF PrepareFails, Tx, Stage, Hashes, Pid, File
  <2>2. {active, tx.target, Protected}' \subseteq revs'
    BY <1>3, NoTxType DEF PrepareFails, Tx
  <2>3. pc' \in Pc /\ integ' \in Rev
    BY <1>3, ProtectedType DEF PrepareFails, Pc, Tx, AttemptSteps, RollbackSteps, RescueSteps, world, ctl
  <2> QED
    BY <2>1, <2>2, <2>3, <1>3 DEF PrepareFails, Pid, world, ctl, bounds, ghosts
<1>4. CASE AppCheck
  <2>1. tx' \in Tx
    BY <1>4 DEF AppCheck, Tx, Stage, Hashes, Pid, File
  <2>2. {active, tx.target, Protected}' \subseteq revs'
    BY <1>4, NoTxType DEF AppCheck, Tx
  <2>3. pc' \in Pc /\ integ' \in Rev
    BY <1>4, ProtectedType DEF AppCheck, Pc, Tx, AttemptSteps, RollbackSteps, RescueSteps, world, ctl
  <2> QED
    BY <2>1, <2>2, <2>3, <1>4 DEF AppCheck, Pid, world, ctl, bounds, ghosts
<1>5. CASE Start
  <2>1. tx' \in Tx
    BY <1>5 DEF Start, Tx, Stage, Hashes, Pid, File
  <2>2. {active, tx.target, Protected}' \subseteq revs'
    BY <1>5, NoTxType DEF Start, Tx
  <2>3. attempts' \in Nat
    BY <1>5 DEF Start
  <2>4. pc' \in Pc /\ integ' \in Rev
    BY <1>5, ProtectedType DEF Start, Pc, Tx, AttemptSteps, RollbackSteps, RescueSteps, world, ctl
  <2> QED
    BY <2>1, <2>2, <2>3, <2>4, <1>5 DEF Start, Pid, world, ctl, bounds, ghosts
<1>6. CASE Check
  <2>1. tx' \in Tx
    BY <1>6 DEF Check, Unchanged, Tx, Stage, Hashes, Pid, File
  <2>2. {active, tx.target, Protected}' \subseteq revs'
    BY <1>6, NoTxType DEF Check, Unchanged, Tx
  <2>3. pc' \in Pc /\ integ' \in Rev
    BY <1>6, ProtectedType DEF Check, Unchanged, Pc, Tx, AttemptSteps, RollbackSteps, RescueSteps, world, ctl
  <2> QED
    BY <2>1, <2>2, <2>3, <1>6 DEF Check, Unchanged, Pid, world, ctl, bounds, ghosts
<1>7. CASE NoDrain
  <2>1. tx' \in Tx
    BY <1>7 DEF NoDrain, Record, AfterDrain, Tx, Stage, Hashes, Pid, File
  <2>2. {active, tx.target, Protected}' \subseteq revs'
    BY <1>7, NoTxType DEF NoDrain, Record, AfterDrain, Tx
  <2>3. pc' \in Pc /\ integ' \in Rev
    BY <1>7, ProtectedType DEF NoDrain, Record, AfterDrain, Pc, Tx, AttemptSteps, RollbackSteps, RescueSteps, world, ctl
  <2> QED
    BY <2>1, <2>2, <2>3, <1>7 DEF NoDrain, Record, AfterDrain, Pid, world, ctl, bounds, ghosts
<1>8. CASE DrainSignal
  <2>1. {active, tx.target, Protected}' \subseteq revs'
    BY <1>8, NoTxType DEF DrainSignal, Tx
  <2>2. svc' \in Service
    BY <1>8 DEF DrainSignal, Service, File
  <2>3. tx' = tx
    BY <1>8 DEF DrainSignal
  <2>4. pc' \in Pc /\ integ' \in Rev
    BY <1>8, ProtectedType DEF DrainSignal, Pc, Tx, AttemptSteps, RollbackSteps, RescueSteps, world, ctl
  <2> QED
    BY <2>1, <2>2, <2>3, <2>4, <1>8 DEF DrainSignal, Pid, world, ctl, bounds, ghosts
<1>9. CASE DrainNotLoaded
  <2>1. tx' \in Tx
    BY <1>9 DEF DrainNotLoaded, Record, AfterDrain, Tx, Stage, Hashes, Pid, File
  <2>2. {active, tx.target, Protected}' \subseteq revs'
    BY <1>9, NoTxType DEF DrainNotLoaded, Record, AfterDrain, Tx
  <2>3. pc' \in Pc /\ integ' \in Rev
    BY <1>9, ProtectedType DEF DrainNotLoaded, Record, AfterDrain, Pc, Tx, AttemptSteps, RollbackSteps, RescueSteps, world, ctl
  <2> QED
    BY <2>1, <2>2, <2>3, <1>9 DEF DrainNotLoaded, Record, AfterDrain, Pid, world, ctl, bounds, ghosts
<1>10. CASE DrainNoHealth
  <2>1. tx' \in Tx
    BY <1>10 DEF DrainNoHealth, Record, AfterNoDrain, Tx, Stage, Hashes, Pid, File
  <2>2. {active, tx.target, Protected}' \subseteq revs'
    BY <1>10, NoTxType DEF DrainNoHealth, Record, AfterNoDrain, Tx
  <2>3. pc' \in Pc /\ integ' \in Rev
    BY <1>10, ProtectedType DEF DrainNoHealth, Record, AfterNoDrain, Pc, Tx, AttemptSteps, RollbackSteps, RescueSteps, world, ctl
  <2> QED
    BY <2>1, <2>2, <2>3, <1>10 DEF DrainNoHealth, Record, AfterNoDrain, Pid, world, ctl, bounds, ghosts
<1>11. CASE Drained
  <2>1. tx' \in Tx
    BY <1>11 DEF Drained, Record, AfterDrain, Tx, Stage, Hashes, Pid, File
  <2>2. {active, tx.target, Protected}' \subseteq revs'
    BY <1>11, NoTxType DEF Drained, Record, AfterDrain, Tx
  <2>3. pc' \in Pc /\ integ' \in Rev
    BY <1>11, ProtectedType DEF Drained, Record, AfterDrain, Pc, Tx, AttemptSteps, RollbackSteps, RescueSteps, world, ctl
  <2> QED
    BY <2>1, <2>2, <2>3, <1>11 DEF Drained, Record, AfterDrain, Pid, world, ctl, bounds, ghosts
<1>12. CASE DrainTimeout
  <2>1. tx' \in Tx
    BY <1>12 DEF DrainTimeout, Record, AfterNoDrain, Tx, Stage, Hashes, Pid, File
  <2>2. {active, tx.target, Protected}' \subseteq revs'
    BY <1>12, NoTxType DEF DrainTimeout, Record, AfterNoDrain, Tx
  <2>3. svc' \in Service
    BY <1>12 DEF DrainTimeout, Record, AfterNoDrain, Service, File
  <2>4. pc' \in Pc /\ integ' \in Rev
    BY <1>12, ProtectedType DEF DrainTimeout, Record, AfterNoDrain, Pc, Tx, AttemptSteps, RollbackSteps, RescueSteps, world, ctl
  <2> QED
    BY <2>1, <2>2, <2>3, <2>4, <1>12 DEF DrainTimeout, Record, AfterNoDrain, Pid, world, ctl, bounds, ghosts
<1>13. CASE DrainThrows
  <2>1. {active, tx.target, Protected}' \subseteq revs'
    BY <1>13, NoTxType DEF DrainThrows, AfterNoDrain, Tx
  <2>2. tx' = tx
    BY <1>13 DEF DrainThrows, AfterNoDrain
  <2>3. pc' \in Pc /\ integ' \in Rev
    BY <1>13, ProtectedType DEF DrainThrows, AfterNoDrain, Pc, Tx, AttemptSteps, RollbackSteps, RescueSteps, world, ctl
  <2> QED
    BY <2>1, <2>2, <2>3, <1>13 DEF DrainThrows, AfterNoDrain, Pid, world, ctl, bounds, ghosts
<1>14. CASE Recheck
  <2>1. {active, tx.target, Protected}' \subseteq revs'
    BY <1>14, NoTxType DEF Recheck, Tx
  <2>2. tx' = tx
    BY <1>14 DEF Recheck
  <2>3. pc' \in Pc /\ integ' \in Rev
    BY <1>14, ProtectedType DEF Recheck, Pc, Tx, AttemptSteps, RollbackSteps, RescueSteps, world, ctl
  <2> QED
    BY <2>1, <2>2, <2>3, <1>14 DEF Recheck, Pid, world, ctl, bounds, ghosts
<1>15. CASE WriteGateway
  <2>1. {active, tx.target, Protected}' \subseteq revs'
    BY <1>15, NoTxType DEF WriteGateway, Write, Tx
  <2>2. file' \in [File -> Content] /\ byUser' \subseteq File
    <3>1. (tx.target \in Router => tx.target \in Content) /\ "gateway" \in File
      BY DEF Content, File
    <3>2. QED
      BY <1>15, <3>1 DEF WriteGateway, Write
  <2>3. tx' = tx
    BY <1>15 DEF WriteGateway, Write
  <2>4. pc' \in Pc /\ integ' \in Rev
    BY <1>15, ProtectedType DEF WriteGateway, Write, Pc, Tx, AttemptSteps, RollbackSteps, RescueSteps, world, ctl
  <2> QED
    BY <2>1, <2>2, <2>3, <2>4, <1>15 DEF WriteGateway, Write, Pid, world, ctl, bounds, ghosts
<1>16. CASE Checkpoint
  <2>1. tx' \in Tx
    BY <1>16, NoTxType DEF Checkpoint, Tx, Stage, Hashes, Pid, File
  <2>2. {active, tx.target, Protected}' \subseteq revs'
    BY <1>16, NoTxType DEF Checkpoint, Tx
  <2>3. pc' \in Pc /\ integ' \in Rev
    BY <1>16, ProtectedType DEF Checkpoint, Pc, Tx, AttemptSteps, RollbackSteps, RescueSteps, world, ctl
  <2> QED
    BY <2>1, <2>2, <2>3, <1>16 DEF Checkpoint, Pid, world, ctl, bounds, ghosts
<1>17. CASE Expect
  <2>1. tx' \in Tx
    BY <1>17, ImageType DEF Expect, Tx, Stage, Hashes, Pid, File
  <2>2. {active, tx.target, Protected}' \subseteq revs'
    BY <1>17, NoTxType DEF Expect, Tx
  <2>3. pc' \in Pc /\ integ' \in Rev
    BY <1>17, ProtectedType DEF Expect, Pc, Tx, AttemptSteps, RollbackSteps, RescueSteps, world, ctl
  <2> QED
    BY <2>1, <2>2, <2>3, <1>17 DEF Expect, Pid, world, ctl, bounds, ghosts
<1>18. CASE ApplyCodex
  <2>1. {active, tx.target, Protected}' \subseteq revs'
    BY <1>18, NoTxType DEF ApplyCodex, IntegrateCodex, Write, Tx
  <2>2. file' \in [File -> Content] /\ byUser' \subseteq File
    BY <1>18, ImageType, ProtectedType DEF ApplyCodex, IntegrateCodex, Write, Tx, Hashes, File, Content
  <2>3. tx' = tx
    BY <1>18 DEF ApplyCodex, IntegrateCodex, Write
  <2>4. pc' \in Pc /\ integ' \in Rev
    BY <1>18, ProtectedType DEF ApplyCodex, IntegrateCodex, Write, Pc, Tx, AttemptSteps, RollbackSteps, RescueSteps, world, ctl
  <2> QED
    BY <2>1, <2>2, <2>3, <2>4, <1>18 DEF ApplyCodex, IntegrateCodex, Write, Pid, world, ctl, bounds, ghosts
<1>19. CASE ApplyCatalog
  <2>1. {active, tx.target, Protected}' \subseteq revs'
    BY <1>19, NoTxType DEF ApplyCatalog, IntegrateCatalog, Write, Tx
  <2>2. file' \in [File -> Content] /\ byUser' \subseteq File
    BY <1>19, ImageType, ProtectedType DEF ApplyCatalog, IntegrateCatalog, Write, Tx, Hashes, File, Content
  <2>3. tx' = tx
    BY <1>19 DEF ApplyCatalog, IntegrateCatalog, Write
  <2>4. pc' \in Pc /\ integ' \in Rev
    BY <1>19, ProtectedType DEF ApplyCatalog, IntegrateCatalog, Write, Pc, Tx, AttemptSteps, RollbackSteps, RescueSteps, world, ctl
  <2> QED
    BY <2>1, <2>2, <2>3, <2>4, <1>19 DEF ApplyCatalog, IntegrateCatalog, Write, Pid, world, ctl, bounds, ghosts
<1>20. CASE ApplyState
  <2>1. {active, tx.target, Protected}' \subseteq revs'
    BY <1>20, NoTxType DEF ApplyState, IntegrateState, Tx
  <2>2. tx' = tx
    BY <1>20 DEF ApplyState, IntegrateState
  <2>3. pc' \in Pc /\ integ' \in Rev
    BY <1>20, ProtectedType DEF ApplyState, IntegrateState, Pc, Tx, AttemptSteps, RollbackSteps, RescueSteps, world, ctl
  <2> QED
    BY <2>1, <2>2, <2>3, <1>20 DEF ApplyState, IntegrateState, Pid, world, ctl, bounds, ghosts
<1>21. CASE Compare
  <2>1. tx' \in Tx
    BY <1>21 DEF Compare, Tx, Stage, Hashes, Pid, File
  <2>2. {active, tx.target, Protected}' \subseteq revs'
    BY <1>21, NoTxType DEF Compare, Tx
  <2>3. pc' \in Pc /\ integ' \in Rev
    BY <1>21, ProtectedType DEF Compare, Pc, Tx, AttemptSteps, RollbackSteps, RescueSteps, world, ctl
  <2> QED
    BY <2>1, <2>2, <2>3, <1>21 DEF Compare, Pid, world, ctl, bounds, ghosts
<1>22. CASE ActivateService
  <2>1. tx' \in Tx
    BY <1>22 DEF ActivateService, Down, Started, TxPidGone, PidGone, Tx, Stage, Hashes, Pid, File
  <2>2. {active, tx.target, Protected}' \subseteq revs'
    BY <1>22, NoTxType DEF ActivateService, Down, Started, TxPidGone, PidGone, Tx
  <2>3. svc' \in Service
    BY <1>22, ServiceType DEF ActivateService
  <2>4. pc' \in Pc /\ integ' \in Rev
    BY <1>22, ProtectedType DEF ActivateService, Down, Started, TxPidGone, PidGone, Pc, Tx, AttemptSteps, RollbackSteps, RescueSteps, world, ctl
  <2> QED
    BY <2>1, <2>2, <2>3, <2>4, <1>22 DEF ActivateService, Down, Started, TxPidGone, PidGone, Pid, world, ctl, bounds, ghosts
<1>23. CASE ActivateServiceFails
  <2>1. tx' \in Tx
    BY <1>23 DEF ActivateServiceFails, Down, Started, TxPidGone, PidGone, Tx, Stage, Hashes, Pid, File
  <2>2. {active, tx.target, Protected}' \subseteq revs'
    BY <1>23, NoTxType DEF ActivateServiceFails, Down, Started, TxPidGone, PidGone, Tx
  <2>3. svc' \in Service
    BY <1>23, ServiceType DEF ActivateServiceFails
  <2>4. pc' \in Pc /\ integ' \in Rev
    BY <1>23, ProtectedType DEF ActivateServiceFails, Down, Started, TxPidGone, PidGone, Pc, Tx, AttemptSteps, RollbackSteps, RescueSteps, world, ctl
  <2> QED
    BY <2>1, <2>2, <2>3, <2>4, <1>23 DEF ActivateServiceFails, Down, Started, TxPidGone, PidGone, Pid, world, ctl, bounds, ghosts
<1>24. CASE Verify
  <2>1. tx' \in Tx
    BY <1>24 DEF Verify, Tx, Stage, Hashes, Pid, File
  <2>2. {active, tx.target, Protected}' \subseteq revs'
    BY <1>24, NoTxType DEF Verify, Tx
  <2>3. pc' \in Pc /\ integ' \in Rev
    BY <1>24, ProtectedType DEF Verify, Pc, Tx, AttemptSteps, RollbackSteps, RescueSteps, world, ctl
  <2> QED
    BY <2>1, <2>2, <2>3, <1>24 DEF Verify, Pid, world, ctl, bounds, ghosts
<1>25. CASE Commit
  <2>1. {active, tx.target, Protected}' \subseteq revs'
    BY <1>25, NoTxType DEF Commit, Tx
  <2>2. tx' = tx
    BY <1>25 DEF Commit
  <2>3. pc' \in Pc /\ integ' \in Rev
    BY <1>25, ProtectedType DEF Commit, Pc, Tx, AttemptSteps, RollbackSteps, RescueSteps, world, ctl
  <2> QED
    BY <2>1, <2>2, <2>3, <1>25 DEF Commit, Pid, world, ctl, bounds, ghosts
<1>26. CASE Clear
  <2>1. tx' \in Tx
    BY <1>26, NoTxType DEF Clear, Tx, Stage, Hashes, Pid, File
  <2>2. {active, tx.target, Protected}' \subseteq revs'
    BY <1>26, NoTxType DEF Clear, Tx
  <2>3. pc' \in Pc /\ integ' \in Rev
    BY <1>26, ProtectedType DEF Clear, Pc, Tx, AttemptSteps, RollbackSteps, RescueSteps, world, ctl
  <2> QED
    BY <2>1, <2>2, <2>3, <1>26 DEF Clear, Pid, world, ctl, bounds, ghosts
<1>27. CASE AttemptFails
  <2>1. {active, tx.target, Protected}' \subseteq revs'
    BY <1>27, NoTxType DEF AttemptFails, Tx
  <2>2. tx' = tx
    BY <1>27 DEF AttemptFails
  <2>3. pc' \in Pc /\ integ' \in Rev
    BY <1>27, ProtectedType DEF AttemptFails, Pc, Tx, AttemptSteps, RollbackSteps, RescueSteps, world, ctl
  <2> QED
    BY <2>1, <2>2, <2>3, <1>27 DEF AttemptFails, Pid, world, ctl, bounds, ghosts
<1>28. CASE Recommit
  <2>1. {active, tx.target, Protected}' \subseteq revs'
    BY <1>28, NoTxType DEF Recommit, Tx
  <2>2. tx' = tx
    BY <1>28 DEF Recommit
  <2>3. pc' \in Pc /\ integ' \in Rev
    BY <1>28, ProtectedType DEF Recommit, Pc, Tx, AttemptSteps, RollbackSteps, RescueSteps, world, ctl
  <2> QED
    BY <2>1, <2>2, <2>3, <1>28 DEF Recommit, Pid, world, ctl, bounds, ghosts
<1>29. CASE RecommitFails
  <2>1. {active, tx.target, Protected}' \subseteq revs'
    BY <1>29, NoTxType DEF RecommitFails, Tx
  <2>2. tx' = tx
    BY <1>29 DEF RecommitFails
  <2>3. pc' \in Pc /\ integ' \in Rev
    BY <1>29, ProtectedType DEF RecommitFails, Pc, Tx, AttemptSteps, RollbackSteps, RescueSteps, world, ctl
  <2> QED
    BY <2>1, <2>2, <2>3, <1>29 DEF RecommitFails, Pid, world, ctl, bounds, ghosts
<1>30. CASE RollbackUntouched
  <2>1. tx' \in Tx
    BY <1>30 DEF RollbackUntouched, AfterRollback, Tx, Stage, Hashes, Pid, File
  <2>2. {active, tx.target, Protected}' \subseteq revs'
    BY <1>30, NoTxType DEF RollbackUntouched, AfterRollback, Tx
  <2>3. svc' \in Service
    BY <1>30 DEF RollbackUntouched, AfterRollback, Service, File
  <2>4. pc' \in Pc /\ integ' \in Rev
    BY <1>30, ProtectedType DEF RollbackUntouched, AfterRollback, Pc, Tx, AttemptSteps, RollbackSteps, RescueSteps, world, ctl
  <2> QED
    BY <2>1, <2>2, <2>3, <2>4, <1>30 DEF RollbackUntouched, AfterRollback, Pid, world, ctl, bounds, ghosts
<1>31. CASE RollbackCheck
  <2>1. {active, tx.target, Protected}' \subseteq revs'
    BY <1>31, NoTxType DEF RollbackCheck, Tx
  <2>2. tx' = tx
    BY <1>31 DEF RollbackCheck
  <2>3. pc' \in Pc /\ integ' \in Rev
    BY <1>31, ProtectedType DEF RollbackCheck, Pc, Tx, AttemptSteps, RollbackSteps, RescueSteps, world, ctl
  <2> QED
    BY <2>1, <2>2, <2>3, <1>31 DEF RollbackCheck, Pid, world, ctl, bounds, ghosts
<1>32. CASE RestoreGateway
  <2>1. {active, tx.target, Protected}' \subseteq revs'
    BY <1>32, NoTxType DEF RestoreGateway, Tx
  <2>2. file' \in [File -> Content] /\ byUser' \subseteq File
    <3>1. tx.src["gateway"] \in Content
      BY <1>32 DEF RestoreGateway, LockHeld, Holding, RollbackSteps, File
    <3>2. QED
      BY <1>32, <3>1 DEF RestoreGateway, File
  <2>3. tx' = tx
    BY <1>32 DEF RestoreGateway
  <2>4. pc' \in Pc /\ integ' \in Rev
    BY <1>32, ProtectedType DEF RestoreGateway, Pc, Tx, AttemptSteps, RollbackSteps, RescueSteps, world, ctl
  <2> QED
    BY <2>1, <2>2, <2>3, <2>4, <1>32 DEF RestoreGateway, Pid, world, ctl, bounds, ghosts
<1>33. CASE RestoreCodex
  <2>1. {active, tx.target, Protected}' \subseteq revs'
    BY <1>33, NoTxType DEF RestoreCodex, IntegrateCodex, Write, Tx
  <2>2. file' \in [File -> Content] /\ byUser' \subseteq File
    BY <1>33, ImageType, ProtectedType DEF RestoreCodex, IntegrateCodex, Write, Tx, Hashes, File, Content
  <2>3. tx' = tx
    BY <1>33 DEF RestoreCodex, IntegrateCodex, Write
  <2>4. pc' \in Pc /\ integ' \in Rev
    BY <1>33, ProtectedType DEF RestoreCodex, IntegrateCodex, Write, Pc, Tx, AttemptSteps, RollbackSteps, RescueSteps, world, ctl
  <2> QED
    BY <2>1, <2>2, <2>3, <2>4, <1>33 DEF RestoreCodex, IntegrateCodex, Write, Pid, world, ctl, bounds, ghosts
<1>34. CASE RestoreCatalog
  <2>1. {active, tx.target, Protected}' \subseteq revs'
    BY <1>34, NoTxType DEF RestoreCatalog, IntegrateCatalog, Write, Tx
  <2>2. file' \in [File -> Content] /\ byUser' \subseteq File
    BY <1>34, ImageType, ProtectedType DEF RestoreCatalog, IntegrateCatalog, Write, Tx, Hashes, File, Content
  <2>3. tx' = tx
    BY <1>34 DEF RestoreCatalog, IntegrateCatalog, Write
  <2>4. pc' \in Pc /\ integ' \in Rev
    BY <1>34, ProtectedType DEF RestoreCatalog, IntegrateCatalog, Write, Pc, Tx, AttemptSteps, RollbackSteps, RescueSteps, world, ctl
  <2> QED
    BY <2>1, <2>2, <2>3, <2>4, <1>34 DEF RestoreCatalog, IntegrateCatalog, Write, Pid, world, ctl, bounds, ghosts
<1>35. CASE RestoreState
  <2>1. {active, tx.target, Protected}' \subseteq revs'
    BY <1>35, NoTxType DEF RestoreState, IntegrateState, Tx
  <2>2. tx' = tx
    BY <1>35 DEF RestoreState, IntegrateState
  <2>3. pc' \in Pc /\ integ' \in Rev
    BY <1>35, ProtectedType DEF RestoreState, IntegrateState, Pc, Tx, AttemptSteps, RollbackSteps, RescueSteps, world, ctl
  <2> QED
    BY <2>1, <2>2, <2>3, <1>35 DEF RestoreState, IntegrateState, Pid, world, ctl, bounds, ghosts
<1>36. CASE RestoreService
  <2>1. tx' \in Tx
    BY <1>36 DEF RestoreService, Down, Started, TxPidGone, PidGone, Tx, Stage, Hashes, Pid, File
  <2>2. {active, tx.target, Protected}' \subseteq revs'
    BY <1>36, NoTxType DEF RestoreService, Down, Started, TxPidGone, PidGone, Tx
  <2>3. svc' \in Service
    BY <1>36, ServiceType DEF RestoreService
  <2>4. pc' \in Pc /\ integ' \in Rev
    BY <1>36, ProtectedType DEF RestoreService, Down, Started, TxPidGone, PidGone, Pc, Tx, AttemptSteps, RollbackSteps, RescueSteps, world, ctl
  <2> QED
    BY <2>1, <2>2, <2>3, <2>4, <1>36 DEF RestoreService, Down, Started, TxPidGone, PidGone, Pid, world, ctl, bounds, ghosts
<1>37. CASE Restored
  <2>1. tx' \in Tx
    BY <1>37, NoTxType DEF Restored, AfterRollback, Tx, Stage, Hashes, Pid, File
  <2>2. {active, tx.target, Protected}' \subseteq revs'
    BY <1>37, NoTxType DEF Restored, AfterRollback, Tx
  <2>3. pc' \in Pc /\ integ' \in Rev
    BY <1>37, ProtectedType DEF Restored, AfterRollback, Pc, Tx, AttemptSteps, RollbackSteps, RescueSteps, world, ctl
  <2> QED
    BY <2>1, <2>2, <2>3, <1>37 DEF Restored, AfterRollback, Pid, world, ctl, bounds, ghosts
<1>38. CASE RollbackFails
  <2>1. tx' \in Tx
    BY <1>38 DEF RollbackFails, Tx, Stage, Hashes, Pid, File
  <2>2. {active, tx.target, Protected}' \subseteq revs'
    BY <1>38, NoTxType DEF RollbackFails, Tx
  <2>3. svc' \in Service
    BY <1>38 DEF RollbackFails, Service, File
  <2>4. pc' \in Pc /\ integ' \in Rev
    BY <1>38, ProtectedType DEF RollbackFails, Pc, Tx, AttemptSteps, RollbackSteps, RescueSteps, world, ctl
  <2> QED
    BY <2>1, <2>2, <2>3, <2>4, <1>38 DEF RollbackFails, Pid, world, ctl, bounds, ghosts
<1>39. CASE RescueCodex
  <2>1. {active, tx.target, Protected}' \subseteq revs'
    BY <1>39, NoTxType DEF RescueCodex, IntegrateCodex, Write, Tx
  <2>2. file' \in [File -> Content] /\ byUser' \subseteq File
    BY <1>39, ImageType, ProtectedType DEF RescueCodex, IntegrateCodex, Write, Tx, Hashes, File, Content
  <2>3. tx' = tx
    BY <1>39 DEF RescueCodex, IntegrateCodex, Write
  <2>4. pc' \in Pc /\ integ' \in Rev
    BY <1>39, ProtectedType DEF RescueCodex, IntegrateCodex, Write, Pc, Tx, AttemptSteps, RollbackSteps, RescueSteps, world, ctl
  <2> QED
    BY <2>1, <2>2, <2>3, <2>4, <1>39 DEF RescueCodex, IntegrateCodex, Write, Pid, world, ctl, bounds, ghosts
<1>40. CASE RescueCatalog
  <2>1. {active, tx.target, Protected}' \subseteq revs'
    BY <1>40, NoTxType DEF RescueCatalog, IntegrateCatalog, Write, Tx
  <2>2. file' \in [File -> Content] /\ byUser' \subseteq File
    BY <1>40, ImageType, ProtectedType DEF RescueCatalog, IntegrateCatalog, Write, Tx, Hashes, File, Content
  <2>3. tx' = tx
    BY <1>40 DEF RescueCatalog, IntegrateCatalog, Write
  <2>4. pc' \in Pc /\ integ' \in Rev
    BY <1>40, ProtectedType DEF RescueCatalog, IntegrateCatalog, Write, Pc, Tx, AttemptSteps, RollbackSteps, RescueSteps, world, ctl
  <2> QED
    BY <2>1, <2>2, <2>3, <2>4, <1>40 DEF RescueCatalog, IntegrateCatalog, Write, Pid, world, ctl, bounds, ghosts
<1>41. CASE RescueState
  <2>1. {active, tx.target, Protected}' \subseteq revs'
    BY <1>41, NoTxType DEF RescueState, IntegrateState, Tx
  <2>2. tx' = tx
    BY <1>41 DEF RescueState, IntegrateState
  <2>3. pc' \in Pc /\ integ' \in Rev
    BY <1>41, ProtectedType DEF RescueState, IntegrateState, Pc, Tx, AttemptSteps, RollbackSteps, RescueSteps, world, ctl
  <2> QED
    BY <2>1, <2>2, <2>3, <1>41 DEF RescueState, IntegrateState, Pid, world, ctl, bounds, ghosts
<1>42. CASE RescueService
  <2>1. tx' \in Tx
    BY <1>42 DEF RescueService, Down, Started, TxPidGone, PidGone, Tx, Stage, Hashes, Pid, File
  <2>2. {active, tx.target, Protected}' \subseteq revs'
    BY <1>42, NoTxType DEF RescueService, Down, Started, TxPidGone, PidGone, Tx
  <2>3. svc' \in Service
    BY <1>42 DEF RescueService, Down, Started, TxPidGone, PidGone, Service, File
  <2>4. pc' \in Pc /\ integ' \in Rev
    BY <1>42, ProtectedType DEF RescueService, Down, Started, TxPidGone, PidGone, Pc, Tx, AttemptSteps, RollbackSteps, RescueSteps, world, ctl
  <2> QED
    BY <2>1, <2>2, <2>3, <2>4, <1>42 DEF RescueService, Down, Started, TxPidGone, PidGone, Pid, world, ctl, bounds, ghosts
<1>43. CASE RescueClear
  <2>1. tx' \in Tx
    BY <1>43, NoTxType DEF RescueClear, Tx, Stage, Hashes, Pid, File
  <2>2. {active, tx.target, Protected}' \subseteq revs'
    BY <1>43, NoTxType DEF RescueClear, Tx
  <2>3. pc' \in Pc /\ integ' \in Rev
    BY <1>43, ProtectedType DEF RescueClear, Pc, Tx, AttemptSteps, RollbackSteps, RescueSteps, world, ctl
  <2> QED
    BY <2>1, <2>2, <2>3, <1>43 DEF RescueClear, Pid, world, ctl, bounds, ghosts
<1>44. CASE RescueCommit
  <2>1. {active, tx.target, Protected}' \subseteq revs'
    BY <1>44, NoTxType DEF RescueCommit, Tx
  <2>2. tx' = tx
    BY <1>44 DEF RescueCommit
  <2>3. pc' \in Pc /\ integ' \in Rev
    BY <1>44, ProtectedType DEF RescueCommit, Pc, Tx, AttemptSteps, RollbackSteps, RescueSteps, world, ctl
  <2> QED
    BY <2>1, <2>2, <2>3, <1>44 DEF RescueCommit, Pid, world, ctl, bounds, ghosts
<1>45. CASE RescueFails
  <2>1. {active, tx.target, Protected}' \subseteq revs'
    BY <1>45, NoTxType DEF RescueFails, Tx
  <2>2. tx' = tx
    BY <1>45 DEF RescueFails
  <2>3. pc' \in Pc /\ integ' \in Rev
    BY <1>45, ProtectedType DEF RescueFails, Pc, Tx, AttemptSteps, RollbackSteps, RescueSteps, world, ctl
  <2> QED
    BY <2>1, <2>2, <2>3, <1>45 DEF RescueFails, Pid, world, ctl, bounds, ghosts
<1>46. QED
  BY <1>1, <1>2, <1>3, <1>4, <1>5, <1>6, <1>7, <1>8, <1>9, <1>10, <1>11, <1>12, <1>13, <1>14, <1>15, <1>16, <1>17, <1>18, <1>19, <1>20, <1>21, <1>22, <1>23, <1>24, <1>25, <1>26, <1>27, <1>28, <1>29, <1>30, <1>31, <1>32, <1>33, <1>34, <1>35, <1>36, <1>37, <1>38, <1>39, <1>40, <1>41, <1>42, <1>43, <1>44, <1>45 DEF Step

\* Every command and every event around it keeps the types.
LEMMA OtherTypeOK ==
  ASSUME TypeOK, Command \/ Environment
  PROVE  TypeOK'
<1> USE DEF TypeOK, Idle
<1>1. ASSUME NEW t \in revs, Begin(t) PROVE TypeOK'
  <2>1. /\ active' \in revs' /\ revs \subseteq revs' /\ revs' \subseteq Rev
    BY <1>1 DEF Begin, CaptureOfficial, Rev, Official
  <2>2. tx' \in Tx /\ tx'.target = t
    BY <1>1 DEF Begin, Tx
  <2>3. pc' \in Pc
    BY <1>1 DEF Begin, Pc
  <2>4. QED
    BY <1>1, <2>1, <2>2, <2>3 DEF Begin, world, bounds, ghosts
<1>2. CASE Resume
  <2>1. pc' \in Pc /\ recovering' \in BOOLEAN
    BY <1>2 DEF Resume, Pc, AttemptSteps
  <2>2. QED
    BY <1>2, <2>1 DEF Resume, world, bounds, ghosts
<1>3. CASE ResumeVerified
  <2>1. pc' \in Pc
    BY <1>3 DEF ResumeVerified, Pc
  <2>2. QED
    BY <1>3, <2>1 DEF ResumeVerified, world, bounds, ghosts
<1>4. CASE Cancel
  BY <1>4, NoTxType DEF Cancel, world, ctl, bounds
<1>5. CASE Rescue
  <2>1. pc' \in Pc
    BY <1>5 DEF Rescue, Pc, RescueSteps
  <2>2. QED
    BY <1>5, <2>1 DEF Rescue, world, bounds
<1>6. CASE Crash
  <2>1. tx' \in Tx /\ {active, tx.target, Protected}' \subseteq revs'
    BY <1>6, NoTxType DEF Crash
  <2>2. pc' \in Pc /\ drainPid' \in Pid /\ crashes' \in Nat /\ torn' \in BOOLEAN
    BY <1>6 DEF Crash, Pc, Pid
  <2>3. QED
    BY <1>6, <2>1, <2>2 DEF Crash, world
<1>7. CASE ServiceRestart
  <2>1. tx' \in Tx /\ tx'.target = tx.target /\ drainPid' \in Pid
    BY <1>7 DEF ServiceRestart, TxPidGone, PidGone, Tx, Pid
  <2>2. svc' \in Service /\ restarts' \in Nat
    BY <1>7, ServiceType DEF ServiceRestart
  <2>3. QED
    BY <1>7, <2>1, <2>2 DEF ServiceRestart, ghosts
<1>8. CASE AppToggle
  BY <1>8 DEF AppToggle, world, ctl, bounds, ghosts
<1>9. ASSUME NEW f \in File, NEW c \in EditContent, UserEdit(f, c) PROVE TypeOK'
  <2>1. c \in Content
    BY <1>9, ConstantsOK
  <2>2. file' \in [File -> Content] /\ byUser' \subseteq File /\ atRest' \subseteq File
    BY <1>9, <2>1 DEF UserEdit
  <2>3. edits' \in Nat
    BY <1>9 DEF UserEdit
  <2>4. svc' \in Service
    BY <1>9 DEF UserEdit, Service
  <2>5. QED
    BY <1>9, <2>2, <2>3, <2>4 DEF UserEdit, ctl
<1>10. QED
  BY <1>1, <1>2, <1>3, <1>4, <1>5, <1>6, <1>7, <1>8, <1>9 DEF Command, Environment

\* Every step of the command in the lock keeps what its place promises, and
\* moves the pointer only once the transaction is verified.
LEMMA StepPointer ==
  ASSUME TypeOK, LockHeld, PointerLast, Step
  PROVE  LockHeld' /\ PointerLast'
<1> USE DEF LockHeld, PointerLast, Goto
<1>1. CASE ReadSource
  BY <1>1 DEF ReadSource, TypeOK, Tx, Holding, AttemptSteps, RollbackSteps, world, ctl
<1>2. CASE Prepare
  BY <1>2 DEF Prepare, TypeOK, Tx, Holding, AttemptSteps, RollbackSteps, world, ctl
<1>3. CASE PrepareFails
  BY <1>3 DEF PrepareFails, TypeOK, Tx, NoTx, Holding, AttemptSteps, RollbackSteps, world, ctl
<1>4. CASE AppCheck
  BY <1>4 DEF AppCheck, TypeOK, Tx, Holding, AttemptSteps, RollbackSteps, world, ctl
<1>5. CASE Start
  BY <1>5 DEF Start, TypeOK, Tx, Holding, AttemptSteps, RollbackSteps, world, ctl
<1>6. CASE Check
  BY <1>6 DEF Check, Unchanged, TypeOK, Tx, Holding, AttemptSteps, RollbackSteps, world, ctl
<1>7. CASE NoDrain
  BY <1>7 DEF NoDrain, Record, AfterDrain, TypeOK, Tx, Holding, AttemptSteps, RollbackSteps, world, ctl
<1>8. CASE DrainSignal
  BY <1>8 DEF DrainSignal, Holding, AttemptSteps, RollbackSteps, world, ctl
<1>9. CASE DrainNotLoaded
  BY <1>9 DEF DrainNotLoaded, Record, AfterDrain, TypeOK, Tx, Holding, AttemptSteps, RollbackSteps, world, ctl
<1>10. CASE DrainNoHealth
  BY <1>10 DEF DrainNoHealth, Record, AfterNoDrain, TypeOK, Tx, Holding, AttemptSteps, RollbackSteps, world, ctl
<1>11. CASE Drained
  BY <1>11 DEF Drained, Record, AfterDrain, TypeOK, Tx, Holding, AttemptSteps, RollbackSteps, world, ctl
<1>12. CASE DrainTimeout
  BY <1>12 DEF DrainTimeout, Record, AfterNoDrain, TypeOK, Tx, Holding, AttemptSteps, RollbackSteps, world, ctl
<1>13. CASE DrainThrows
  BY <1>13 DEF DrainThrows, AfterNoDrain, Holding, AttemptSteps, RollbackSteps, world, ctl
<1>14. CASE Recheck
  BY <1>14 DEF Recheck, Holding, AttemptSteps, RollbackSteps, world, ctl
<1>15. CASE WriteGateway
  BY <1>15 DEF WriteGateway, Write, Holding, AttemptSteps, RollbackSteps, world, ctl
<1>16. CASE Checkpoint
  BY <1>16 DEF Checkpoint, TypeOK, Tx, Holding, AttemptSteps, RollbackSteps, world, ctl
<1>17. CASE Expect
  BY <1>17 DEF Expect, TypeOK, Tx, Holding, AttemptSteps, RollbackSteps, world, ctl
<1>18. CASE ApplyCodex
  BY <1>18 DEF ApplyCodex, IntegrateCodex, Write, Holding, AttemptSteps, RollbackSteps, world, ctl
<1>19. CASE ApplyCatalog
  BY <1>19 DEF ApplyCatalog, IntegrateCatalog, Write, Holding, AttemptSteps, RollbackSteps, world, ctl
<1>20. CASE ApplyState
  BY <1>20 DEF ApplyState, IntegrateState, Holding, AttemptSteps, RollbackSteps, world, ctl
<1>21. CASE Compare
  BY <1>21 DEF Compare, TypeOK, Tx, Holding, AttemptSteps, RollbackSteps, world, ctl
<1>22. CASE ActivateService
  BY <1>22 DEF ActivateService, Down, Started, TxPidGone, PidGone, TypeOK, Tx, Holding, AttemptSteps, RollbackSteps, world, ctl
<1>23. CASE ActivateServiceFails
  BY <1>23 DEF ActivateServiceFails, Down, Started, TxPidGone, PidGone, TypeOK, Tx, Holding, AttemptSteps, RollbackSteps, world, ctl
<1>24. CASE Verify
  BY <1>24 DEF Verify, TypeOK, Tx, Holding, AttemptSteps, RollbackSteps, world, ctl
<1>25. CASE Commit
  BY <1>25 DEF Commit, Holding, AttemptSteps, RollbackSteps, world, ctl
<1>26. CASE Clear
  BY <1>26 DEF Clear, TypeOK, Tx, NoTx, Holding, AttemptSteps, RollbackSteps, world, ctl
<1>27. CASE AttemptFails
  BY <1>27 DEF AttemptFails, Holding, AttemptSteps, RollbackSteps, world, ctl
<1>28. CASE Recommit
  BY <1>28 DEF Recommit, Holding, AttemptSteps, RollbackSteps, world, ctl
<1>29. CASE RecommitFails
  BY <1>29 DEF RecommitFails, Holding, AttemptSteps, RollbackSteps, world, ctl
<1>30. CASE RollbackUntouched
  BY <1>30 DEF RollbackUntouched, AfterRollback, TypeOK, Tx, Holding, AttemptSteps, RollbackSteps, world, ctl
<1>31. CASE RollbackCheck
  BY <1>31 DEF RollbackCheck, Holding, AttemptSteps, RollbackSteps, world, ctl
<1>32. CASE RestoreGateway
  BY <1>32 DEF RestoreGateway, Holding, AttemptSteps, RollbackSteps, world, ctl
<1>33. CASE RestoreCodex
  BY <1>33 DEF RestoreCodex, IntegrateCodex, Write, Holding, AttemptSteps, RollbackSteps, world, ctl
<1>34. CASE RestoreCatalog
  BY <1>34 DEF RestoreCatalog, IntegrateCatalog, Write, Holding, AttemptSteps, RollbackSteps, world, ctl
<1>35. CASE RestoreState
  BY <1>35 DEF RestoreState, IntegrateState, Holding, AttemptSteps, RollbackSteps, world, ctl
<1>36. CASE RestoreService
  BY <1>36 DEF RestoreService, Down, Started, TxPidGone, PidGone, TypeOK, Tx, Holding, AttemptSteps, RollbackSteps, world, ctl
<1>37. CASE Restored
  BY <1>37 DEF Restored, AfterRollback, TypeOK, Tx, Holding, AttemptSteps, RollbackSteps, world, ctl
<1>38. CASE RollbackFails
  BY <1>38 DEF RollbackFails, TypeOK, Tx, Holding, AttemptSteps, RollbackSteps, world, ctl
<1>39. CASE RescueCodex
  BY <1>39 DEF RescueCodex, IntegrateCodex, Write, Holding, AttemptSteps, RollbackSteps, world, ctl
<1>40. CASE RescueCatalog
  BY <1>40 DEF RescueCatalog, IntegrateCatalog, Write, Holding, AttemptSteps, RollbackSteps, world, ctl
<1>41. CASE RescueState
  BY <1>41 DEF RescueState, IntegrateState, Holding, AttemptSteps, RollbackSteps, world, ctl
<1>42. CASE RescueService
  BY <1>42 DEF RescueService, Down, Started, TxPidGone, PidGone, TypeOK, Tx, Holding, AttemptSteps, RollbackSteps, world, ctl
<1>43. CASE RescueClear
  BY <1>43 DEF RescueClear, TypeOK, Tx, NoTx, Holding, AttemptSteps, RollbackSteps, world, ctl
<1>44. CASE RescueCommit
  BY <1>44 DEF RescueCommit, Holding, AttemptSteps, RollbackSteps, world, ctl
<1>45. CASE RescueFails
  BY <1>45 DEF RescueFails, Holding, AttemptSteps, RollbackSteps, world, ctl
<1>46. QED
  BY <1>1, <1>2, <1>3, <1>4, <1>5, <1>6, <1>7, <1>8, <1>9, <1>10, <1>11, <1>12, <1>13, <1>14, <1>15, <1>16, <1>17, <1>18, <1>19, <1>20, <1>21, <1>22, <1>23, <1>24, <1>25, <1>26, <1>27, <1>28, <1>29, <1>30, <1>31, <1>32, <1>33, <1>34, <1>35, <1>36, <1>37, <1>38, <1>39, <1>40, <1>41, <1>42, <1>43, <1>44, <1>45 DEF Step

\* So do the commands and the events around them.
LEMMA OtherPointer ==
  ASSUME TypeOK, LockHeld, PointerLast, Command \/ Environment
  PROVE  LockHeld' /\ PointerLast'
<1> USE DEF LockHeld, PointerLast, Idle
<1>1. ASSUME NEW t \in revs, Begin(t) PROVE LockHeld' /\ PointerLast'
  BY <1>1 DEF Begin, TypeOK, Tx, Holding, AttemptSteps, RollbackSteps
<1>2. CASE Resume
  BY <1>2 DEF Resume, Holding, AttemptSteps, RollbackSteps
<1>3. CASE ResumeVerified
  BY <1>3 DEF ResumeVerified, Holding, AttemptSteps, RollbackSteps, world
<1>4. CASE Cancel
  BY <1>4 DEF Cancel, NoTx, ctl, Holding, AttemptSteps, RollbackSteps
<1>5. CASE Rescue
  BY <1>5 DEF Rescue, Holding, AttemptSteps, RollbackSteps
<1>6. CASE Crash
  BY <1>6 DEF Crash, NoTx, Holding, AttemptSteps, RollbackSteps
<1>7. CASE ServiceRestart
  BY <1>7 DEF ServiceRestart, TxPidGone, TypeOK, Tx
<1>8. CASE AppToggle
  BY <1>8 DEF AppToggle, ctl
<1>9. ASSUME NEW f \in File, NEW c \in EditContent, UserEdit(f, c)
      PROVE LockHeld' /\ PointerLast'
  BY <1>9 DEF UserEdit, ctl
<1>10. QED
  BY <1>1, <1>2, <1>3, <1>4, <1>5, <1>6, <1>7, <1>8, <1>9 DEF Command, Environment

-----------------------------------------------------------------------------
\* The inductive invariant: types, what the place in the lock promises, and
\* the pointer.  PointerLast alone is not inductive: a commit or a failure at
\* the end of an attempt needs the pointer still at the source there.
IInv == TypeOK /\ LockHeld /\ PointerLast

LEMMA InitIInv == Init => IInv
<1> SUFFICES ASSUME Init PROVE LockHeld /\ PointerLast
  BY InitTypeOK DEF IInv
<1> QED
  BY NoTxType DEF Init, LockHeld, PointerLast, Holding, AttemptSteps, RollbackSteps

LEMMA NextIInv == IInv /\ [Next]_vars => IInv'
<1> SUFFICES ASSUME IInv, [Next]_vars PROVE IInv'
  OBVIOUS
<1>1. CASE Step
  BY <1>1, StepTypeOK, StepPointer DEF IInv
<1>2. CASE Command \/ Environment
  BY <1>2, OtherTypeOK, OtherPointer DEF IInv
<1>3. CASE UNCHANGED vars
  BY <1>3 DEF IInv, TypeOK, LockHeld, PointerLast, vars, world, ctl, bounds, ghosts
<1>4. QED
  BY <1>1, <1>2, <1>3 DEF Next

THEOREM AlwaysIInv == Spec => []IInv
<1>1. QED
  BY InitIInv, NextIInv, PTL DEF Spec

\* Every reachable state is well typed.
THEOREM TypeCorrect == Spec => []TypeOK
<1>1. IInv => TypeOK
  BY DEF IInv
<1>2. QED
  BY <1>1, AlwaysIInv, PTL

\* Until a transaction is verified the pointer names its source, for any set of
\* revisions and any number of attempts, edits, crashes and service restarts.
THEOREM PointerMovesLast == Spec => []PointerLast
<1>1. IInv => PointerLast
  BY DEF IInv
<1>2. QED
  BY <1>1, AlwaysIInv, PTL

-----------------------------------------------------------------------------
(* SpaceSwitch implements AtomicSwitch.                                    *)

\* A step that leaves the pointer alone requests, abandons or stutters, as long
\* as it does not replace one pending target by another.
LEMMA PointerStays ==
  ASSUME TypeOK, TypeOK', active' = active,
         \/ tx'.target = tx.target
         \/ tx.stage = "none"
         \/ tx'.stage = "none"
  PROVE  [Promise!Next]_<<active, Pending>>
<1>1. Pending \in Rev \cup {Unset} /\ Pending' \in Rev \cup {Unset}
  BY DEF Pending, TypeOK, Tx
<1>2. Pending' = Pending \/ Pending = Unset \/ Pending' = Unset
  BY DEF Pending
<1>3. CASE Pending' = Pending
  BY <1>3
<1>4. CASE Pending = Unset /\ Pending' # Unset
  BY <1>1, <1>4 DEF Promise!Next, Promise!Request
<1>5. CASE Pending # Unset /\ Pending' = Unset
  BY <1>5 DEF Promise!Next, Promise!Abandon
<1>6. QED
  BY <1>2, <1>3, <1>4, <1>5

\* A commit completes the pending switch, or repeats one that was committed.
LEMMA PointerArrives ==
  ASSUME TypeOK, active' = tx.target, tx' = tx, tx.stage = "verified"
  PROVE  [Promise!Next]_<<active, Pending>>
<1>1. Pending' = Unset
  BY DEF Pending
<1>2. CASE active = tx.target
  BY <1>1, <1>2 DEF Pending
<1>3. CASE active # tx.target
  <2>1. Pending = tx.target /\ Pending # Unset
    BY <1>3, ConstantsOK DEF Pending, TypeOK, Tx
  <2>2. QED
    BY <1>1, <2>1 DEF Promise!Next, Promise!Complete
<1>4. QED
  BY <1>2, <1>3

\* Every step of the switch is a step of the promise or a stutter.
LEMMA StepRefines ==
  ASSUME IInv, IInv', [Next]_vars
  PROVE  [Promise!Next]_<<active, Pending>>
<1> USE DEF IInv
<1>1. ASSUME NEW t \in revs, Begin(t) PROVE [Promise!Next]_<<active, Pending>>
  <2>1. tx.stage = "none" /\ tx'.stage = "none"
    BY <1>1 DEF Begin, TypeOK, Tx
  <2>2. Pending = Unset /\ Pending' = Unset
    BY <2>1 DEF Pending
  <2>3. CASE active \in Router
    BY <1>1, <2>2, <2>3 DEF Begin
  <2>4. CASE active \notin Router
    <3>1. active \in Official
      BY <2>4 DEF TypeOK, Rev
    <3>2. \E r \in Official : active' = r
      BY <1>1, <2>4 DEF Begin, CaptureOfficial
    <3>3. QED
      BY <2>2, <3>1, <3>2 DEF Promise!Next, Promise!Capture
  <2>5. QED
    BY <2>3, <2>4
<1>2. CASE Commit
  BY <1>2, PointerArrives DEF Commit, Goto, LockHeld
<1>3. CASE Recommit
  <2>1. active' = tx.target /\ tx' = tx
    BY <1>3 DEF Recommit
  <2>2. CASE tx.stage = "verified"
    BY <2>1, <2>2, PointerArrives
  <2>3. CASE tx.stage # "verified"
    BY <1>3, <2>1, <2>3, PointerStays DEF Recommit, Goto, LockHeld
  <2>4. QED
    BY <2>2, <2>3
<1>4. CASE RescueCommit
  <2>1. tx.stage = "none" /\ tx' = tx
    BY <1>4 DEF RescueCommit, Goto, LockHeld
  <2>2. Pending = Unset /\ Pending' = Unset
    BY <2>1 DEF Pending
  <2>3. QED
    BY <1>4, <2>2 DEF RescueCommit, Promise!Next, Promise!Rescue
<1>5. CASE Step /\ ~(Commit \/ Recommit \/ RescueCommit)
  <2>1. active' = active /\ (tx'.target = tx.target \/ tx'.stage = "none")
    <3> USE DEF TypeOK
    <3>1. CASE ReadSource
      BY <3>1 DEF ReadSource, Tx
    <3>2. CASE Prepare
      BY <3>2 DEF Prepare, Tx
    <3>3. CASE PrepareFails
      BY <3>3 DEF PrepareFails, Tx, NoTx
    <3>4. CASE AppCheck
      BY <3>4 DEF AppCheck, Tx
    <3>5. CASE Start
      BY <3>5 DEF Start, Tx
    <3>6. CASE Check
      BY <3>6 DEF Check, Tx
    <3>7. CASE NoDrain
      BY <3>7 DEF NoDrain, Record, Tx
    <3>8. CASE DrainSignal
      BY <3>8 DEF DrainSignal
    <3>9. CASE DrainNotLoaded
      BY <3>9 DEF DrainNotLoaded, Record, Tx
    <3>10. CASE DrainNoHealth
      BY <3>10 DEF DrainNoHealth, Record, Tx
    <3>11. CASE Drained
      BY <3>11 DEF Drained, Record, Tx
    <3>12. CASE DrainTimeout
      BY <3>12 DEF DrainTimeout, Record, Tx
    <3>13. CASE DrainThrows
      BY <3>13 DEF DrainThrows
    <3>14. CASE Recheck
      BY <3>14 DEF Recheck
    <3>15. CASE WriteGateway
      BY <3>15 DEF WriteGateway
    <3>16. CASE Checkpoint
      BY <3>16 DEF Checkpoint, Tx
    <3>17. CASE Expect
      BY <3>17 DEF Expect, Tx
    <3>18. CASE ApplyCodex
      BY <3>18 DEF ApplyCodex, IntegrateCodex
    <3>19. CASE ApplyCatalog
      BY <3>19 DEF ApplyCatalog, IntegrateCatalog
    <3>20. CASE ApplyState
      BY <3>20 DEF ApplyState, IntegrateState
    <3>21. CASE Compare
      BY <3>21 DEF Compare, Tx
    <3>22. CASE ActivateService
      BY <3>22 DEF ActivateService, TxPidGone, Tx
    <3>23. CASE ActivateServiceFails
      BY <3>23 DEF ActivateServiceFails, TxPidGone, Tx
    <3>24. CASE Verify
      BY <3>24 DEF Verify, Tx
    <3>25. CASE Clear
      BY <3>25 DEF Clear, Tx, NoTx
    <3>26. CASE AttemptFails
      BY <3>26 DEF AttemptFails
    <3>27. CASE RecommitFails
      BY <3>27 DEF RecommitFails
    <3>28. CASE RollbackUntouched
      BY <3>28 DEF RollbackUntouched, Tx
    <3>29. CASE RollbackCheck
      BY <3>29 DEF RollbackCheck
    <3>30. CASE RestoreGateway
      BY <3>30 DEF RestoreGateway
    <3>31. CASE RestoreCodex
      BY <3>31 DEF RestoreCodex, IntegrateCodex
    <3>32. CASE RestoreCatalog
      BY <3>32 DEF RestoreCatalog, IntegrateCatalog
    <3>33. CASE RestoreState
      BY <3>33 DEF RestoreState, IntegrateState
    <3>34. CASE RestoreService
      BY <3>34 DEF RestoreService, TxPidGone, Tx
    <3>35. CASE Restored
      BY <3>35 DEF Restored, Tx
    <3>36. CASE RollbackFails
      BY <3>36 DEF RollbackFails, Tx
    <3>37. CASE RescueCodex
      BY <3>37 DEF RescueCodex, IntegrateCodex
    <3>38. CASE RescueCatalog
      BY <3>38 DEF RescueCatalog, IntegrateCatalog
    <3>39. CASE RescueState
      BY <3>39 DEF RescueState, IntegrateState
    <3>40. CASE RescueService
      BY <3>40 DEF RescueService, TxPidGone, Tx
    <3>41. CASE RescueClear
      BY <3>41 DEF RescueClear, Tx, NoTx
    <3>42. CASE RescueFails
      BY <3>42 DEF RescueFails
    <3>43. QED
      BY <1>5, <3>1, <3>2, <3>3, <3>4, <3>5, <3>6, <3>7, <3>8, <3>9, <3>10, <3>11, <3>12, <3>13, <3>14, <3>15, <3>16, <3>17, <3>18, <3>19, <3>20, <3>21, <3>22, <3>23, <3>24, <3>25, <3>26, <3>27, <3>28, <3>29, <3>30, <3>31, <3>32, <3>33, <3>34, <3>35, <3>36, <3>37, <3>38, <3>39, <3>40, <3>41, <3>42 DEF Step
  <2>2. QED
    BY <2>1, PointerStays
<1>6. CASE Resume \/ ResumeVerified \/ Cancel \/ Rescue
  <2>1. active' = active /\ (tx' = tx \/ tx'.stage = "none")
    BY <1>6, NoTxType DEF Resume, ResumeVerified, Cancel, Rescue
  <2>2. QED
    BY <2>1, PointerStays
<1>7. CASE Environment
  <2>1. active' = active /\ (tx'.target = tx.target \/ tx'.stage = "none")
    BY <1>7, NoTxType DEF Environment, Crash, ServiceRestart, TxPidGone, AppToggle, UserEdit, TypeOK, Tx
  <2>2. QED
    BY <2>1, PointerStays
<1>8. CASE UNCHANGED vars
  BY <1>8 DEF vars, Pending
<1>9. QED
  BY <1>1, <1>2, <1>3, <1>4, <1>5, <1>6, <1>7, <1>8 DEF Next, Command

\* The crash-prone, file-by-file switch implements the one-step switch.
THEOREM ImplementsAtomicSwitch == Spec => RefinesAtomicSwitch
<1>1. Init => Promise!Init
  <2>1. Init => TypeOK /\ tx.stage = "none"
    BY InitTypeOK, NoTxType DEF Init
  <2>2. QED
    BY <2>1 DEF Promise!Init, Pending, TypeOK
<1>2. IInv /\ IInv' /\ [Next]_vars => [Promise!Next]_<<active, Pending>>
  BY StepRefines
<1>3. QED
  BY <1>1, <1>2, AlwaysIInv, PTL DEF Spec, RefinesAtomicSwitch, Promise!Spec

-----------------------------------------------------------------------------
(* All or nothing.  What a switch promises holds when no command runs; the   *)
(* invariant says, for every place a command may die at, how far the files,  *)
(* the integration state and the service have got, and what is on record of  *)
(* that for the next command.                                                *)

\* The transaction's two ends.
From == tx.source
To   == tx.target

\* File f carries revision r or a later hand edit; the integration state is of
\* r's kind; the Router runs a config like r's; the service does as r asks.
Fit(r, f) == f \in byUser \/ Fits(r, f, file[f])
Files(r)  == Fit(r, "gateway") /\ Fit(r, "codex") /\ Fit(r, "catalog")
Agree(r)  == r \in Router <=> integ \in Router
Runs(r)   == svc.cfgUser \/ <<svc.cfg, r>> \in ToolModeOnly
Serves(r) == svc.up => r \in Router /\ svc.accepting /\ Runs(r)
Good(r)   == Files(r) /\ Agree(r) /\ Serves(r) /\ (r \in Router => svc.up)

\* No rescue is half-way, running or dead.
Halfway == pc \in {"rescueCatalog", "rescueState", "rescueService",
                   "rescueClear", "rescueCommit"}
Sound   == ~torn /\ ~Halfway

\* The transaction waits for an attempt; an attempt wrote nothing it recorded.
Rested == \/ tx.stage \in {"prepared", "pending_app_quit"}
          \/ tx.stage = "failed" /\ tx.recovered = "yes"
Early  == tx.stage = "applying" /\ ~Applied

\* A source service that stopped accepting will be resumed, or is gone.
Ready == tx.drained /\ tx.wasRunning = "yes" /\ tx.pid # Unset
Late  == ~tx.skip /\ tx.wasRunning = "yes" /\ tx.pid = "dead"

\* The steps of an attempt before and after the checkpoint of the gateway config.
Draining  == {"drain", "draining", "noDrain"}
Written   == {"recheck", "writeGateway", "checkpoint"}
Recorded  == {"expect", "applyCodex", "applyCatalog", "applyState", "compare",
              "service", "verify", "commit"}

\* What a place in the lock says of the stage and of the checkpoint.
Places ==
  /\ pc \in {"check", "verify"} \cup Draining \cup Written \cup (Recorded \ {"commit"})
       => tx.stage = "applying"
  /\ pc \in RollbackSteps => tx.stage \in {"applying", "verified"}
  /\ pc = "start" => Rested
  /\ pc = "appCheck" => tx.stage = "prepared"
  /\ pc \in {"drain", "draining"} => From \in Router /\ ~tx.skip
  /\ pc = "noDrain" => From \notin Router \/ tx.skip
  /\ pc \in {"check"} \cup Written \cup Recorded => ~recovering
  /\ pc \in {"check"} \cup Written => ~Applied
  /\ (pc \in Draining /\ ~recovering) => ~Applied
  /\ pc \in Recorded => Applied
  /\ pc = "draining" => drainPid # Unset
  /\ drainPid = "dead" => (svc.up => svc.accepting)
  /\ pc = "clear" => active = To

\* The gateway config is the source's or the target's, and no other content is
\* taken for one of them unless the user wrote it.
Gateway ==
  /\ pc \in {"readSource", "preflight"} =>
       Fit(active, "gateway") /\ (To \in Router => active # To)
  /\ tx.stage # "none" =>
       /\ To \in Router => From # To
       /\ \/ Fit(From, "gateway")
          \/ To \in Router /\ file["gateway"] = To /\ tx.src["gateway"] # To
       /\ \/ "gateway" \in byUser
          \/ file["gateway"] = tx.src["gateway"]
          \/ To \in Router /\ file["gateway"] = To
       /\ \/ To \notin Router \/ ~Applied \/ tx.app["gateway"] = To
          \/ file["gateway"] # tx.app["gateway"] \/ "gateway" \in byUser
       /\ tx.skip => <<From, To>> \in ToolModeOnly /\ (svc.up => Runs(From))

\* Without a transaction the pointer's revision is in place, and a transaction
\* that waits has left its source in place.
Resting ==
  /\ tx.stage = "none" =>
       /\ Serves(active) /\ ~Applied /\ ~tx.skip /\ tx.wasRunning = Unset
       /\ svc.up => Fit(active, "gateway")
       /\ Sound => Good(active)
  /\ Rested => /\ Serves(From) /\ Fit(From, "gateway") /\ ~Applied
               /\ Sound => Good(From)

\* Until the checkpoint only the gateway config and the service have moved.
Trying ==
  /\ Early =>
       /\ svc.up => From \in Router /\ (Runs(From) \/ Late)
       /\ (svc.up /\ ~tx.skip /\ ~Fit(From, "gateway")) => tx.wasRunning = "yes" /\ tx.pid # Unset
       /\ Sound => /\ Fit(From, "codex") /\ Fit(From, "catalog") /\ Agree(From)
                   /\ From \in Router => svc.up
  /\ pc \in {"start", "check", "recheck", "writeGateway"} => Fit(From, "gateway")
  /\ (pc \in Draining /\ ~recovering) => Fit(From, "gateway")
  /\ pc = "check" => Serves(From)
  /\ (pc \in {"drain", "noDrain"} /\ ~recovering) => Serves(From)
  /\ (pc = "draining" /\ ~recovering) => (svc.up => Runs(From))
  /\ pc \in Written => /\ tx.wasRunning # Unset
                       /\ (~tx.skip /\ svc.up) => From \in Router /\ Ready
  /\ (pc = "rollback" /\ ~Applied /\ svc.up) =>
       Ready \/ (Serves(From) /\ (tx.skip \/ Fit(From, "gateway")))

\* A Router that refuses turns belongs to an attempt or a failed recovery, and
\* what the transaction recorded about the source service is true of it.
Stopped ==
  /\ (svc.up /\ ~svc.accepting) =>
       /\ tx.stage = "applying" \/ (tx.stage = "failed" /\ tx.recovered = "no")
       /\ ~tx.skip /\ From \in Router
  /\ (Rested \/ Early) => (tx.wasRunning = "no" => ~svc.up)
  /\ tx.stage \in {"applying", "verified"} =>
       /\ (~torn /\ From \in Router /\ active = From) => tx.wasRunning # "no"
       /\ Applied => tx.wasRunning # Unset

\* What an attempt has put in place by each of its steps.
Going ==
  /\ pc = "writeGateway" => file["gateway"] = tx.src["gateway"] \/ "gateway" \in byUser
  /\ (pc \in {"checkpoint"} \cup Recorded /\ To \in Router) => Fit(To, "gateway")
  /\ pc \in {"applyCodex", "applyCatalog", "applyState", "compare"} =>
       tx.exp["codex"] = Image(To, "codex") /\ tx.exp["catalog"] = Image(To, "catalog")
  /\ pc \in {"service", "verify", "commit"} =>
       tx.app["codex"] = Image(To, "codex") /\ tx.app["catalog"] = Image(To, "catalog")
  /\ (pc = "verify" /\ To \in Router /\ svc.up) => svc.accepting /\ Runs(To)
  /\ pc \in {"commit", "recommit", "clear"} => Good(To)

\* A verified transaction carries the target's images, and its service runs the
\* target's config unless a rollback has put the source's config back.
Proven ==
  (tx.stage = "verified") =>
    /\ Applied
    /\ tx.app["codex"] = Image(To, "codex") /\ tx.app["catalog"] = Image(To, "catalog")
    /\ (To \in Router /\ svc.up) =>
         /\ svc.accepting
         /\ \/ Runs(To)
            \/ /\ "gateway" \notin byUser
               /\ file["gateway"] = tx.src["gateway"]
               /\ file["gateway"] # tx.app["gateway"]
    /\ (active = To /\ Sound) => Good(To)

\* What a rollback has put back by each of its steps.
Back ==
  /\ pc \in {"restoreCodex", "restoreCatalog", "restoreState", "restoreService", "restored"}
       => Fit(From, "gateway")
  /\ pc \in {"restoreCatalog", "restoreState", "restoreService", "restored"}
       => Fit(From, "codex")
  /\ pc \in {"restoreState", "restoreService", "restored"} => Fit(From, "catalog")
  /\ pc \in {"restoreService", "restored"} => integ = From
  /\ pc = "restored" =>
       /\ Serves(From)
       /\ (From \in Router /\ tx.wasRunning # "no") => svc.up
       /\ tx.wasRunning = "no" => ~svc.up

\* What a rescue has put in place by each of its steps.
Rescued ==
  /\ Halfway => Fit(Protected, "codex")
  /\ (Halfway /\ pc # "rescueCatalog") => Fit(Protected, "catalog")
  /\ pc \in {"rescueService", "rescueClear", "rescueCommit"} => integ = Protected
  /\ pc \in {"rescueClear", "rescueCommit"} => ~svc.up

\* A foreign edit made at rest matches nothing the transaction knows, so no
\* step past the checks of an attempt, a rollback or a resume is reached.
Foreign ==
  \A f \in atRest :
    /\ file[f] \notin {tx.src[f], tx.exp[f], tx.app[f]}
    /\ tx.stage # "none"
    /\ \/ pc \in {"idle", "start", "check", "rollback"}
       \/ pc \in Draining /\ recovering

\* The inductive invariant behind SwitchSafe.
SwitchInv == /\ Places /\ Gateway /\ Resting /\ Trying /\ Stopped
             /\ Going /\ Proven /\ Back /\ Rescued /\ Foreign

USE DEF Goto, world, ctl, bounds, ghosts, IInv, SwitchInv, From, To, Fit, Fits, Image, Files,
      Agree, Runs, Serves, Good, Halfway, Sound, Rested, Early, Ready, Late, Draining, Written,
      Recorded, Applied, Idle

\* Configs that behave alike: reflexive, symmetric and transitive.
LEMMA Alike ==
  /\ \A r \in Router : <<r, r>> \in ToolModeOnly
  /\ \A q, r, s : (<<q, r>> \in ToolModeOnly /\ <<r, s>> \in ToolModeOnly) => <<q, s>> \in ToolModeOnly
  /\ \A q, r : <<q, r>> \in ToolModeOnly => q \in Router /\ r \in Router /\ <<r, q>> \in ToolModeOnly
BY ConstantsOK

\* The kinds of values do not overlap.
LEMMA Apart ==
  /\ \A r \in Rev : r \in Router \/ r \in Official
  /\ \A r \in Official : r \notin Router /\ r.codex \in Base /\ r.catalog \in Content
  /\ \A c \in Base : c \notin Router
  /\ Protected \in Official /\ Protected \in Rev
  /\ Unset \notin Content /\ Unset \notin Rev
  /\ Unset \notin {"yes", "no", "live", "dead"}
  /\ Router \subseteq Content
BY ConstantsOK DEF Rev, Official, Protected, Content

\* beginSpaceSwitch: the source is left as it is while the transaction is written.
LEMMA BeginKeeps ==
  ASSUME IInv, SwitchInv, NEW t \in revs, Begin(t)
  PROVE  SwitchInv'
<1> USE DEF Begin, CaptureOfficial, TypeOK, Tx
<1>1. Places'
  BY DEF AttemptSteps, RollbackSteps, RescueSteps, Places
<1>2. Gateway'
  BY Apart DEF Gateway
<1>3. Resting'
  BY Apart DEF Resting
<1>4. Trying' /\ Stopped' /\ Going' /\ Proven' /\ Back' /\ Rescued' /\ Foreign'
  BY DEF Trying, Stopped, Going, Proven, Back, Rescued, Foreign
<1> QED
  BY <1>1, <1>2, <1>3, <1>4

LEMMA ReadSourceKeeps ==
  ASSUME IInv, SwitchInv, ReadSource
  PROVE  SwitchInv'
<1> USE DEF ReadSource, TypeOK, Tx
<1>1. Places'
  BY DEF AttemptSteps, RollbackSteps, RescueSteps, Places
<1>2. Gateway'
  BY DEF LockHeld, Holding, Gateway
<1>3. Resting'
  BY DEF LockHeld, Holding, Resting
<1>4. Trying'
  BY DEF LockHeld, Holding, Trying
<1>5. Stopped'
  BY DEF LockHeld, Holding, Stopped
<1>6. Going' /\ Proven' /\ Back' /\ Rescued' /\ Foreign'
  BY DEF Going, Proven, Back, Rescued, Foreign
<1> QED
  BY <1>1, <1>2, <1>3, <1>4, <1>5, <1>6

LEMMA PrepareKeeps ==
  ASSUME IInv, SwitchInv, Prepare
  PROVE  SwitchInv'
<1> USE DEF Prepare, Unchanged, TypeOK, Tx
<1>1. Places'
  BY DEF AttemptSteps, RollbackSteps, RescueSteps, Places
<1>2. Gateway'
  BY DEF LockHeld, Holding, Gateway, Resting
<1>3. Resting'
  BY DEF LockHeld, Holding, Gateway, Resting
<1>4. Trying' /\ Going' /\ Proven' /\ Back' /\ Rescued' /\ Foreign'
  BY DEF Trying, Going, Proven, Back, Rescued, Foreign
<1>5. Stopped'
  BY Apart DEF LockHeld, Holding, Resting, Stopped
<1> QED
  BY <1>1, <1>2, <1>3, <1>4, <1>5

LEMMA PrepareFailsKeeps ==
  ASSUME IInv, SwitchInv, PrepareFails
  PROVE  SwitchInv'
<1> USE DEF PrepareFails, NoTx, NoFiles, TypeOK, Tx
<1>1. Places'
  BY DEF AttemptSteps, RollbackSteps, RescueSteps, Places
<1>2. Gateway' /\ Trying' /\ Going' /\ Proven' /\ Back' /\ Rescued' /\ Foreign'
  BY DEF Gateway, Trying, Going, Proven, Back, Rescued, Foreign
<1>3. Resting'
  BY DEF Hashes, Pid, File, Content, LockHeld, Holding, Resting
<1>4. Stopped'
  BY DEF LockHeld, Holding, Stopped
<1> QED
  BY <1>1, <1>2, <1>3, <1>4

LEMMA AppCheckKeeps ==
  ASSUME IInv, SwitchInv, AppCheck
  PROVE  SwitchInv'
<1> USE DEF AppCheck, TypeOK, Tx
<1>1. Places'
  BY DEF AttemptSteps, RollbackSteps, RescueSteps, Places
<1>2. Gateway'
  BY DEF Places, Gateway
<1>3. Resting'
  BY DEF Places, Resting
<1>4. Trying' /\ Going' /\ Proven' /\ Back' /\ Rescued' /\ Foreign'
  BY DEF Trying, Going, Proven, Back, Rescued, Foreign
<1>5. Stopped'
  BY DEF Places, Stopped
<1> QED
  BY <1>1, <1>2, <1>3, <1>4, <1>5

\* resumeSpaceSwitch up to the first write: the service may be stopped, the files not.
LEMMA ResumeKeeps ==
  ASSUME IInv, SwitchInv, Resume
  PROVE  SwitchInv'
<1> USE DEF Resume
<1>1. pc = "idle" /\ UNCHANGED <<file, integ, svc, active, revs, tx, drainPid, byUser, atRest, torn>>
  OBVIOUS
<1>2. recovering' <=> tx.stage = "applying"
  OBVIOUS
<1>3. \/ pc' = "start" /\ Rested /\ ~recovering'
      \/ pc' = "drain" /\ tx.stage = "applying" /\ recovering' /\ From \in Router /\ ~tx.skip
      \/ pc' = "noDrain" /\ tx.stage = "applying" /\ recovering' /\ (From \notin Router \/ tx.skip)
  BY <1>2
<1> HIDE DEF Resume
<1>4. Places'
  BY <1>1, <1>3 DEF Places, RollbackSteps
<1>5. Gateway' /\ Stopped' /\ Going' /\ Back' /\ Rescued'
  BY <1>1, <1>3 DEF Gateway, Stopped, Going, Back, Rescued
<1>6. Resting' /\ Proven'
  BY <1>1, <1>3 DEF Resting, Proven
<1>7. Trying'
  BY <1>1, <1>3 DEF Trying, Resting
<1>8. Foreign'
  BY <1>1, <1>3 DEF Foreign
<1> QED
  BY <1>4, <1>5, <1>6, <1>7, <1>8

LEMMA StartKeeps ==
  ASSUME IInv, SwitchInv, Start
  PROVE  SwitchInv'
<1> USE DEF Start, TypeOK, Tx
<1>1. Places'
  BY DEF Places, Resting
<1>2. Gateway'
  BY DEF Places, Gateway
<1>3. Resting' /\ Going' /\ Proven' /\ Back' /\ Rescued' /\ Foreign'
  BY DEF Resting, Going, Proven, Back, Rescued, Foreign
<1>4. Trying'
  BY DEF Places, Resting, Trying
<1>5. Stopped'
  BY DEF Places, Resting, Stopped
<1> QED
  BY <1>1, <1>2, <1>3, <1>4, <1>5

LEMMA CheckKeeps ==
  ASSUME IInv, SwitchInv, Check
  PROVE  SwitchInv'
<1> USE DEF Check, Unchanged, TypeOK, Tx
<1>1. Places'
  BY DEF Service, Places
<1>2. Gateway'
  BY DEF Gateway, Trying
<1>3. Resting'
  BY DEF Places, Resting
<1>4. Trying' /\ Going' /\ Proven' /\ Back' /\ Rescued' /\ Foreign'
  BY DEF Trying, Going, Proven, Back, Rescued, Foreign
<1>5. Stopped'
  BY DEF Trying, Stopped
<1> QED
  BY <1>1, <1>2, <1>3, <1>4, <1>5

LEMMA NoDrainKeeps ==
  ASSUME IInv, SwitchInv, NoDrain
  PROVE  SwitchInv'
<1> USE DEF NoDrain, Record, AfterDrain, TypeOK, Tx
<1>1. Places' /\ Gateway' /\ Going' /\ Proven' /\ Back' /\ Rescued' /\ Foreign'
  BY DEF Places, Gateway, Going, Proven, Back, Rescued, Foreign
<1>2. Resting'
  BY DEF Places, Resting
<1>3. Trying'
  BY Apart DEF Places, Trying, Stopped
<1>4. Stopped'
  BY DEF Places, Trying, Stopped
<1> QED
  BY <1>1, <1>2, <1>3, <1>4

LEMMA DrainSignalKeeps ==
  ASSUME IInv, SwitchInv, DrainSignal
  PROVE  SwitchInv'
<1> USE DEF DrainSignal, TypeOK, Tx
<1>1. Places'
  BY Apart DEF Places
<1>2. Gateway' /\ Trying' /\ Going' /\ Back' /\ Rescued' /\ Foreign'
  BY DEF Gateway, Trying, Going, Back, Rescued, Foreign
<1>3. Resting'
  BY DEF Places, Resting
<1>4. Stopped'
  BY DEF Places, Stopped
<1>5. Proven'
  BY DEF Places, Proven
<1> QED
  BY <1>1, <1>2, <1>3, <1>4, <1>5

LEMMA DrainNotLoadedKeeps ==
  ASSUME IInv, SwitchInv, DrainNotLoaded
  PROVE  SwitchInv'
<1> USE DEF DrainNotLoaded, Record, AfterDrain, TypeOK, Tx
<1>1. Places' /\ Gateway' /\ Going' /\ Proven' /\ Back' /\ Rescued' /\ Foreign'
  BY DEF Places, Gateway, Going, Proven, Back, Rescued, Foreign
<1>2. Resting'
  BY DEF Places, Resting
<1>3. Trying'
  BY Apart DEF Trying
<1>4. Stopped'
  BY DEF Places, Trying, Stopped
<1> QED
  BY <1>1, <1>2, <1>3, <1>4

LEMMA DrainNoHealthKeeps ==
  ASSUME IInv, SwitchInv, DrainNoHealth
  PROVE  SwitchInv'
<1> USE DEF DrainNoHealth, Record, AfterNoDrain, TypeOK, Tx
<1>1. Places' /\ Gateway' /\ Trying' /\ Going' /\ Proven' /\ Back' /\ Rescued' /\ Foreign'
  BY DEF Places, Gateway, Trying, Going, Proven, Back, Rescued, Foreign
<1>2. Resting'
  BY DEF Places, Resting
<1>3. Stopped'
  BY DEF Places, Stopped
<1> QED
  BY <1>1, <1>2, <1>3

LEMMA DrainedKeeps ==
  ASSUME IInv, SwitchInv, Drained
  PROVE  SwitchInv'
<1> USE DEF Drained, Record, AfterDrain, TypeOK, Tx
<1>1. Places'
  BY Apart DEF Places
<1>2. Gateway' /\ Going' /\ Proven' /\ Back' /\ Rescued' /\ Foreign'
  BY DEF Gateway, Going, Proven, Back, Rescued, Foreign
<1>3. Resting'
  BY DEF Places, Resting
<1>4. Trying'
  BY Apart DEF Places, Trying, Stopped
<1>5. Stopped'
  BY DEF Places, Stopped
<1> QED
  BY <1>1, <1>2, <1>3, <1>4, <1>5

LEMMA DrainTimeoutKeeps ==
  ASSUME IInv, SwitchInv, DrainTimeout
  PROVE  SwitchInv'
<1> USE DEF DrainTimeout, Record, AfterNoDrain, TypeOK, Tx
<1>1. Places' /\ Gateway' /\ Going' /\ Proven' /\ Back' /\ Rescued' /\ Foreign'
  BY DEF Places, Gateway, Going, Proven, Back, Rescued, Foreign
<1>2. Resting'
  BY DEF Places, Resting
<1>3. Trying'
  BY Apart DEF Places, Trying
<1>4. Stopped'
  BY DEF Places, Stopped
<1> QED
  BY <1>1, <1>2, <1>3, <1>4

LEMMA DrainThrowsKeeps ==
  ASSUME IInv, SwitchInv, DrainThrows
  PROVE  SwitchInv'
<1> USE DEF DrainThrows, AfterNoDrain, TypeOK, Tx
<1>1. Places' /\ Gateway' /\ Resting' /\ Stopped' /\ Going' /\ Proven' /\ Back' /\ Rescued' /\ Foreign'
  BY DEF Places, Gateway, Resting, Stopped, Going, Proven, Back, Rescued, Foreign
<1>2. Trying'
  BY DEF Places, Trying
<1> QED
  BY <1>1, <1>2

LEMMA RecheckKeeps ==
  ASSUME IInv, SwitchInv, Recheck
  PROVE  SwitchInv'
<1> USE DEF Recheck, Unchanged, TypeOK, Tx
<1> QED
  BY DEF Places, Gateway, Resting, Trying, Stopped, Going, Proven, Back, Rescued, Foreign

\* The attempt writes, verifies and commits.
LEMMA WriteGatewayKeeps ==
  ASSUME IInv, SwitchInv, WriteGateway
  PROVE  SwitchInv'
<1> USE DEF WriteGateway, Write, TypeOK, Tx
<1>1. Places' /\ Gateway' /\ Stopped' /\ Back' /\ Rescued' /\ Foreign'
  BY DEF Places, Gateway, Stopped, Back, Rescued, Foreign
<1>2. Resting'
  BY DEF Places, Resting
<1>3. Trying'
  BY DEF Hashes, Pid, File, Content, Trying
<1>4. Going'
  BY DEF Hashes, Pid, File, Content, Going
<1>5. Proven'
  BY DEF Places, Proven
<1> QED
  BY <1>1, <1>2, <1>3, <1>4, <1>5

LEMMA CheckpointKeeps ==
  ASSUME IInv, SwitchInv, Checkpoint
  PROVE  SwitchInv'
<1> USE DEF Checkpoint, NoFiles, TypeOK, Tx
<1>1. Places'
  BY Apart DEF Hashes, Pid, File, Content, Places
<1>2. Gateway'
  BY DEF Gateway, Going
<1>3. Resting'
  BY DEF Places, Resting
<1>4. Trying'
  BY DEF Places, Trying
<1>5. Stopped'
  BY DEF Places, Trying, Stopped
<1>6. Going' /\ Back' /\ Rescued' /\ Foreign'
  BY DEF Going, Back, Rescued, Foreign
<1>7. Proven'
  BY DEF Places, Proven
<1> QED
  BY <1>1, <1>2, <1>3, <1>4, <1>5, <1>6, <1>7

LEMMA ExpectKeeps ==
  ASSUME IInv, SwitchInv, Expect
  PROVE  SwitchInv'
<1> USE DEF Expect, TypeOK, Tx
<1>1. Places' /\ Gateway' /\ Resting' /\ Trying' /\ Stopped' /\ Proven' /\ Back' /\ Rescued' /\ Foreign'
  BY DEF Places, Gateway, Resting, Trying, Stopped, Proven, Back, Rescued, Foreign
<1>2. Going'
  BY DEF Hashes, Pid, File, Content, Going
<1> QED
  BY <1>1, <1>2

LEMMA ApplyCodexKeeps ==
  ASSUME IInv, SwitchInv, ApplyCodex
  PROVE  SwitchInv'
<1> USE DEF ApplyCodex, IntegrateCodex, Write, TypeOK, Tx
<1>1. Places' /\ Gateway' /\ Stopped' /\ Going' /\ Proven' /\ Back' /\ Rescued' /\ Foreign'
  BY DEF Places, Gateway, Stopped, Going, Proven, Back, Rescued, Foreign
<1>2. Resting'
  BY DEF Places, Resting
<1>3. Trying'
  BY DEF Places, Trying
<1> QED
  BY <1>1, <1>2, <1>3

LEMMA ApplyCatalogKeeps ==
  ASSUME IInv, SwitchInv, ApplyCatalog
  PROVE  SwitchInv'
<1> USE DEF ApplyCatalog, IntegrateCatalog, Write, TypeOK, Tx
<1>1. Places' /\ Gateway' /\ Stopped' /\ Going' /\ Proven' /\ Back' /\ Rescued' /\ Foreign'
  BY DEF Places, Gateway, Stopped, Going, Proven, Back, Rescued, Foreign
<1>2. Resting'
  BY DEF Places, Resting
<1>3. Trying'
  BY DEF Places, Trying
<1> QED
  BY <1>1, <1>2, <1>3

LEMMA ApplyStateKeeps ==
  ASSUME IInv, SwitchInv, ApplyState
  PROVE  SwitchInv'
<1> USE DEF ApplyState, IntegrateState, TypeOK, Tx
<1>1. Places' /\ Gateway' /\ Stopped' /\ Going' /\ Proven' /\ Back' /\ Rescued' /\ Foreign'
  BY DEF Places, Gateway, Stopped, Going, Proven, Back, Rescued, Foreign
<1>2. Resting'
  BY DEF Places, Resting
<1>3. Trying'
  BY DEF Places, Trying
<1> QED
  BY <1>1, <1>2, <1>3

LEMMA CompareKeeps ==
  ASSUME IInv, SwitchInv, Compare
  PROVE  SwitchInv'
<1> USE DEF Compare, TypeOK, Tx
<1>1. Places'
  BY DEF Hashes, Pid, File, Content, Places
<1>2. Gateway'
  BY DEF Gateway, Going
<1>3. Resting'
  BY DEF Places, Resting
<1>4. Trying'
  BY DEF Hashes, Pid, File, Content, Trying
<1>5. Stopped'
  BY DEF Hashes, Pid, File, Content, Stopped
<1>6. Going'
  BY DEF Hashes, Pid, File, Content, Going
<1>7. Proven'
  BY DEF Places, Proven
<1>8. Back' /\ Rescued' /\ Foreign'
  BY DEF Back, Rescued, Foreign
<1> QED
  BY <1>1, <1>2, <1>3, <1>4, <1>5, <1>6, <1>7, <1>8

LEMMA ActivateServiceKeeps ==
  ASSUME IInv, SwitchInv, ActivateService
  PROVE  SwitchInv'
<1> USE DEF ActivateService, Down, Started, TxPidGone, PidGone, TypeOK, Tx
<1>1. Places' /\ Gateway' /\ Back' /\ Rescued' /\ Foreign'
  BY DEF Places, Gateway, Back, Rescued, Foreign
<1>2. Resting'
  BY DEF Places, Resting
<1>3. Trying'
  BY DEF Places, Trying
<1>4. Stopped'
  BY DEF Places, Stopped
<1>5. Proven'
  BY DEF Places, Proven
<1>6. Going'
<2>1. pc' = "verify" /\ pc = "service" /\ UNCHANGED <<file, byUser, integ>>
    OBVIOUS
  <2>2. UNCHANGED <<tx.source, tx.target, tx.exp, tx.app>>
    OBVIOUS
  <2>3. ASSUME To \in Router, svc'.up
        PROVE  svc'.accepting /\ Runs(To)'
    <3>1. To \notin Official
      BY <2>3, Apart
    <3>2. CASE tx.skip
      BY <2>2, <2>3, <3>1, <3>2, Alike DEF Places, Stopped, Gateway
    <3>3. CASE ~tx.skip
      <4>1. svc' = Started
        BY <3>1, <3>3
      <4>2. svc'.accepting /\ svc'.cfg = file["gateway"] /\ (svc'.cfgUser <=> "gateway" \in byUser)
        BY <4>1
      <4>3. Fit(To, "gateway")
        BY <2>1, <2>3 DEF Going
      <4>4. QED
        BY <2>2, <2>3, <4>2, <4>3, Alike
    <3>4. QED
      BY <3>2, <3>3
  <2>4. To' = To
    BY <2>2
  <2>5. QED
    BY <2>1, <2>2, <2>3, <2>4 DEF Going
<1> QED
  BY <1>1, <1>2, <1>3, <1>4, <1>5, <1>6

LEMMA ActivateServiceFailsKeeps ==
  ASSUME IInv, SwitchInv, ActivateServiceFails
  PROVE  SwitchInv'
<1> USE DEF ActivateServiceFails, Down, Started, TxPidGone, PidGone, TypeOK, Tx
<1>1. Places' /\ Gateway' /\ Going' /\ Back' /\ Rescued' /\ Foreign'
  BY DEF Places, Gateway, Going, Back, Rescued, Foreign
<1>2. Resting'
  BY DEF Places, Resting
<1>3. Trying'
  BY DEF Places, Trying
<1>4. Stopped'
  BY DEF Places, Stopped
<1>5. Proven'
  BY DEF Places, Proven
<1> QED
  BY <1>1, <1>2, <1>3, <1>4, <1>5

LEMMA VerifyKeeps ==
  ASSUME IInv, SwitchInv, Verify
  PROVE  SwitchInv'
<1> USE DEF Verify, Verified, AsApplied, TypeOK, Tx
<1>1. Places' /\ Resting' /\ Trying' /\ Back' /\ Rescued' /\ Foreign'
  BY DEF Places, Resting, Trying, Back, Rescued, Foreign
<1>2. Gateway'
  BY DEF Places, Gateway
<1>3. Stopped'
  BY Apart DEF Places, Stopped, Going
<1>4. Going'
  BY Apart DEF Going
<1>5. Proven'
  BY Apart DEF Places, Going, Proven
<1> QED
  BY <1>1, <1>2, <1>3, <1>4, <1>5

LEMMA CommitKeeps ==
  ASSUME IInv, SwitchInv, Commit
  PROVE  SwitchInv'
<1> USE DEF Commit, AsApplied, Verified, TypeOK, Tx
<1>1. Places'
  BY DEF AttemptSteps, RollbackSteps, RescueSteps, Places
<1>2. Gateway' /\ Going' /\ Back' /\ Rescued' /\ Foreign'
  BY DEF Gateway, Going, Back, Rescued, Foreign
<1>3. Resting'
  BY DEF Places, Resting
<1>4. Trying'
  BY DEF Places, Trying
<1>5. Stopped'
  BY DEF Gateway, Stopped
<1>6. Proven'
  BY DEF Going, Proven
<1> QED
  BY <1>1, <1>2, <1>3, <1>4, <1>5, <1>6

LEMMA ClearKeeps ==
  ASSUME IInv, SwitchInv, Clear
  PROVE  SwitchInv'
<1> USE DEF Clear, NoTx, NoFiles, TypeOK, Tx
<1>1. Places'
  BY DEF AttemptSteps, RollbackSteps, RescueSteps, Places
<1>2. Gateway' /\ Trying' /\ Going' /\ Proven' /\ Back' /\ Rescued' /\ Foreign'
  BY DEF Gateway, Trying, Going, Proven, Back, Rescued, Foreign
<1>3. Resting'
  BY DEF Hashes, Pid, File, Content, Places, Resting, Going
<1>4. Stopped'
  BY DEF Stopped, Going
<1> QED
  BY <1>1, <1>2, <1>3, <1>4

LEMMA AttemptFailsKeeps ==
  ASSUME IInv, SwitchInv, AttemptFails
  PROVE  SwitchInv'
<1> USE DEF AttemptFails, AttemptSteps, TypeOK, Tx
<1>1. Places'
  BY DEF LockHeld, Holding, Places
<1>2. Gateway' /\ Resting' /\ Stopped' /\ Going' /\ Proven' /\ Back' /\ Rescued' /\ Foreign'
  BY DEF Gateway, Resting, Stopped, Going, Proven, Back, Rescued, Foreign
<1>3. Trying'
  BY DEF Places, Trying, Stopped
<1> QED
  BY <1>1, <1>2, <1>3

\* A verified transaction is committed again.
LEMMA ResumeVerifiedKeeps ==
  ASSUME IInv, SwitchInv, ResumeVerified
  PROVE  SwitchInv'
<1> USE DEF ResumeVerified, AsApplied, Verified, TypeOK, Tx
<1>1. Places' /\ Gateway' /\ Resting' /\ Trying' /\ Stopped' /\ Proven' /\ Back' /\ Rescued' /\ Foreign'
  BY DEF Places, Gateway, Resting, Trying, Stopped, Proven, Back, Rescued, Foreign
<1>2. Going'
  BY Apart DEF PointerLast, Gateway, Going, Proven
<1> QED
  BY <1>1, <1>2

LEMMA RecommitKeeps ==
  ASSUME IInv, SwitchInv, Recommit
  PROVE  SwitchInv'
<1> USE DEF Recommit, AsApplied, TypeOK, Tx
<1>1. Places'
  BY DEF AttemptSteps, RollbackSteps, RescueSteps, Places
<1>2. Gateway' /\ Going' /\ Back' /\ Rescued' /\ Foreign'
  BY DEF Gateway, Going, Back, Rescued, Foreign
<1>3. Resting'
  BY DEF LockHeld, Holding, Resting
<1>4. Trying'
  BY DEF LockHeld, Holding, PointerLast, Trying, Going
<1>5. Stopped'
  BY DEF Gateway, Stopped
<1>6. Proven'
  BY DEF Going, Proven
<1> QED
  BY <1>1, <1>2, <1>3, <1>4, <1>5, <1>6

LEMMA RecommitFailsKeeps ==
  ASSUME IInv, SwitchInv, RecommitFails
  PROVE  SwitchInv'
<1> USE DEF RecommitFails, TypeOK, Tx
<1>1. Places'
  BY DEF AttemptSteps, RollbackSteps, RescueSteps, Places
<1>2. Gateway' /\ Resting' /\ Trying' /\ Stopped' /\ Going' /\ Proven' /\ Back' /\ Rescued' /\ Foreign'
  BY DEF Gateway, Resting, Trying, Stopped, Going, Proven, Back, Rescued, Foreign
<1> QED
  BY <1>1, <1>2

\* rollback puts the source back, or gives up.
LEMMA RollbackUntouchedKeeps ==
  ASSUME IInv, SwitchInv, RollbackUntouched
  PROVE  SwitchInv'
<1> USE DEF RollbackUntouched, TypeOK, Tx
<1>1. /\ pc = "rollback" /\ pc' \in {"start", "idle"}
      /\ UNCHANGED <<file, integ, active, recovering, drainPid, byUser, atRest, torn>>
  BY DEF AfterRollback
<1>2. /\ tx'.stage = "failed" /\ tx'.recovered = "yes"
      /\ UNCHANGED <<tx.source, tx.target, tx.src, tx.exp, tx.app, tx.skip, tx.drained, tx.wasRunning, tx.pid>>
  OBVIOUS
<1>3. ~Applied /\ Early /\ active = From
  BY <1>1, <1>2 DEF Places, RollbackSteps, Proven, LockHeld, Holding
<1>4. UNCHANGED <<svc.up, svc.cfg, svc.cfgUser>> /\ (svc.accepting => svc'.accepting)
  BY DEF Service
<1>5. svc.up => Serves(From)'
  <2>1. SUFFICES ASSUME svc.up PROVE From \in Router /\ svc'.accepting /\ Runs(From)
    BY <1>2, <1>4
  <2>2. CASE MustResume /\ ~tx.skip
    <3>1. tx.pid # "dead" /\ Runs(From) /\ From \in Router
      BY <1>3, <2>1, <2>2, <1>1 DEF Trying, MustResume
    <3>2. CASE tx.pid = "live"
      BY <2>2, <3>1, <3>2 DEF Service
    <3>3. CASE tx.pid = Unset
      BY <1>1, <1>3, <1>4, <2>1, <3>1, <3>3 DEF Trying
    <3>4. QED
      BY <3>1, <3>2, <3>3 DEF Pid
  <2>3. CASE ~MustResume \/ tx.skip
    BY <1>1, <1>3, <1>4, <2>1, <2>3 DEF Trying, Stopped, MustResume, Gateway
  <2>4. QED
    BY <2>2, <2>3
<1>6. Fit(From, "gateway") /\ (Sound => Good(From)')
  <2>1. Fit(From, "gateway")
    BY <1>3, Apart DEF Gateway, Unchanged
  <2>2. QED
    BY <1>1, <1>2, <1>3, <1>4, <1>5, <2>1 DEF Trying
<1> HIDE DEF RollbackUntouched, TypeOK, Tx
<1>7. Places'
  BY <1>1, <1>2, <1>3, <1>4 DEF Places, RollbackSteps
<1>8. Gateway'
  BY <1>1, <1>2, <1>3, <1>4 DEF Gateway
<1>9. Resting'
  BY <1>1, <1>2, <1>3, <1>4, <1>5, <1>6 DEF Resting
<1>10. Trying'
  BY <1>1, <1>2, <1>3, <1>4, <1>5, <1>6 DEF Trying
<1>11. Stopped'
  BY <1>1, <1>2, <1>3, <1>4, <1>5, <1>6 DEF Stopped
<1>12. Going' /\ Proven' /\ Back' /\ Rescued' /\ Foreign'
  BY <1>1, <1>2, <1>3 DEF Going, Proven, Back, Rescued, Foreign, Unchanged
<1> QED
  BY <1>7, <1>8, <1>9, <1>10, <1>11, <1>12

LEMMA RollbackCheckKeeps ==
  ASSUME IInv, SwitchInv, RollbackCheck
  PROVE  SwitchInv'
<1> USE DEF RollbackCheck, Unchanged, OwnHash, TypeOK, Tx
<1>1. Places'
  BY DEF AttemptSteps, RollbackSteps, RescueSteps, Places
<1>2. Gateway' /\ Resting' /\ Trying' /\ Stopped' /\ Going' /\ Proven' /\ Back' /\ Rescued' /\ Foreign'
  BY DEF Gateway, Resting, Trying, Stopped, Going, Proven, Back, Rescued, Foreign
<1> QED
  BY <1>1, <1>2

LEMMA RestoreGatewayKeeps ==
  ASSUME IInv, SwitchInv, RestoreGateway
  PROVE  SwitchInv'
<1> USE DEF RestoreGateway, PutBack, TypeOK, Tx
<1>1. Places'
  BY DEF AttemptSteps, RollbackSteps, RescueSteps, Places
<1>2. Gateway' /\ Stopped' /\ Going' /\ Rescued' /\ Foreign'
  BY DEF Gateway, Stopped, Going, Rescued, Foreign
<1>3. Resting'
  BY DEF AttemptSteps, RollbackSteps, RescueSteps, Places, Resting
<1>4. Trying'
  BY DEF Hashes, Pid, File, Content, Trying
<1>5. Proven'
  BY DEF Hashes, Pid, File, Content, LockHeld, Holding, AttemptSteps, RollbackSteps,
      RescueSteps, Proven
<1>6. Back'
  BY DEF Hashes, Pid, File, Content, AttemptSteps, RollbackSteps, RescueSteps, Places, Gateway,
      Back
<1> QED
  BY <1>1, <1>2, <1>3, <1>4, <1>5, <1>6

LEMMA RestoreCodexKeeps ==
  ASSUME IInv, SwitchInv, RestoreCodex
  PROVE  SwitchInv'
<1> USE DEF RestoreCodex, IntegrateCodex, Write, TypeOK, Tx
<1>1. Places'
  BY DEF AttemptSteps, RollbackSteps, RescueSteps, Places
<1>2. Gateway' /\ Trying' /\ Stopped' /\ Going' /\ Rescued' /\ Foreign'
  BY DEF Gateway, Trying, Stopped, Going, Rescued, Foreign
<1>3. Resting'
  BY DEF AttemptSteps, RollbackSteps, RescueSteps, Places, Resting
<1>4. Proven'
  BY DEF LockHeld, Holding, AttemptSteps, RollbackSteps, RescueSteps, Proven
<1>5. Back'
  BY DEF Hashes, Pid, File, Content, Back
<1> QED
  BY <1>1, <1>2, <1>3, <1>4, <1>5

LEMMA RestoreCatalogKeeps ==
  ASSUME IInv, SwitchInv, RestoreCatalog
  PROVE  SwitchInv'
<1> USE DEF RestoreCatalog, IntegrateCatalog, Write, TypeOK, Tx
<1>1. Places'
  BY DEF AttemptSteps, RollbackSteps, RescueSteps, Places
<1>2. Gateway' /\ Trying' /\ Stopped' /\ Going' /\ Rescued' /\ Foreign'
  BY DEF Gateway, Trying, Stopped, Going, Rescued, Foreign
<1>3. Resting'
  BY DEF AttemptSteps, RollbackSteps, RescueSteps, Places, Resting
<1>4. Proven'
  BY DEF LockHeld, Holding, AttemptSteps, RollbackSteps, RescueSteps, Proven
<1>5. Back'
  BY DEF Hashes, Pid, File, Content, Back
<1> QED
  BY <1>1, <1>2, <1>3, <1>4, <1>5

LEMMA RestoreStateKeeps ==
  ASSUME IInv, SwitchInv, RestoreState
  PROVE  SwitchInv'
<1> USE DEF RestoreState, IntegrateState, TypeOK, Tx
<1>1. Places'
  BY DEF AttemptSteps, RollbackSteps, RescueSteps, Places
<1>2. Gateway' /\ Trying' /\ Stopped' /\ Going' /\ Back' /\ Rescued' /\ Foreign'
  BY DEF Gateway, Trying, Stopped, Going, Back, Rescued, Foreign
<1>3. Resting'
  BY DEF AttemptSteps, RollbackSteps, RescueSteps, Places, Resting
<1>4. Proven'
  BY DEF LockHeld, Holding, AttemptSteps, RollbackSteps, RescueSteps, Proven
<1> QED
  BY <1>1, <1>2, <1>3, <1>4

LEMMA RestoreServiceKeeps ==
  ASSUME IInv, SwitchInv, RestoreService
  PROVE  SwitchInv'
<1> USE DEF RestoreService, TypeOK, Tx
<1>1. /\ pc = "restoreService" /\ pc' = "restored" /\ integ = From /\ active = From
      /\ Fit(From, "gateway") /\ Fit(From, "codex") /\ Fit(From, "catalog")
      /\ tx.stage \in {"applying", "verified"}
      /\ UNCHANGED <<file, integ, active, recovering, drainPid, byUser, atRest, torn>>
  BY DEF Back, Places, RollbackSteps, LockHeld, Holding
<1>2. /\ UNCHANGED <<tx.stage, tx.recovered, tx.source, tx.target, tx.src, tx.exp, tx.app, tx.skip, tx.drained, tx.wasRunning>>
      /\ (tx.pid # Unset => tx'.pid # Unset) 
  BY Apart DEF TxPidGone, PidGone
<1>3. \/ svc' = Down /\ (From \in Official \/ tx.wasRunning = "no")
      \/ svc' = Started /\ From \in Router /\ tx.wasRunning # "no"
      \/ svc' = svc /\ svc.up /\ tx.skip /\ From \in Router /\ tx.wasRunning # "no"
  BY Apart
<1> HIDE DEF RestoreService, TypeOK, Tx
<1>4. /\ ~Down.up /\ Started.up /\ Started.accepting
      /\ Started.cfg = file["gateway"] /\ Started.cfgUser = ("gateway" \in byUser)
  BY DEF Down, Started
<1>5. Serves(From)' /\ (From \in Router /\ tx.wasRunning # "no" => svc'.up)
      /\ (tx.wasRunning = "no" => ~svc'.up)
  <2>1. CASE svc' = Down /\ (From \in Official \/ tx.wasRunning = "no")
    BY <1>2, <1>4, <2>1, Apart
  <2>2. CASE svc' = Started /\ From \in Router /\ tx.wasRunning # "no"
    BY <1>1, <1>2, <1>4, <2>2, Alike
  <2>3. CASE svc' = svc /\ svc.up /\ tx.skip /\ From \in Router /\ tx.wasRunning # "no"
    BY <1>1, <1>2, <2>3 DEF Stopped, Gateway
  <2>4. QED
    BY <1>3, <2>1, <2>2, <2>3
<1>6. Places'
  BY <1>1, <1>2, <1>5 DEF Places, RollbackSteps
<1>7. Gateway'
  BY <1>1, <1>2, <1>5 DEF Gateway
<1>8. Resting' /\ Going' /\ Rescued' /\ Foreign'
  BY <1>1, <1>2 DEF Resting, Going, Rescued, Foreign
<1>9. Trying'
  BY <1>1, <1>2, <1>5 DEF Trying, Stopped
<1>10. Stopped'
  BY <1>1, <1>2, <1>5 DEF Stopped
<1>11. Proven'
  <2>1. SUFFICES ASSUME tx.stage = "verified"
                 PROVE  Proven'
    BY <1>2 DEF Proven
  <2>2. ASSUME To \in Router, svc'.up
        PROVE  /\ svc'.accepting
               /\ \/ Runs(To)'
                  \/ /\ "gateway" \notin byUser
                     /\ file["gateway"] = tx.src["gateway"]
                     /\ file["gateway"] # tx.app["gateway"]
    <3>1. CASE svc' = Started
      <4>1. CASE "gateway" \in byUser \/ file["gateway"] = To
        BY <1>2, <1>4, <2>2, <3>1, <4>1, Alike
      <4>2. CASE "gateway" \notin byUser /\ file["gateway"] # To
        <5>1. file["gateway"] = tx.src["gateway"] /\ file["gateway"] # tx.app["gateway"]
          BY <2>1, <2>2, <4>2 DEF Gateway, Proven
        <5>2. QED
          BY <1>4, <3>1, <4>2, <5>1
      <4>3. QED
        BY <4>1, <4>2
    <3>2. CASE svc' = svc /\ svc.up
      BY <1>1, <1>2, <2>1, <2>2, <3>2 DEF Proven
    <3>3. QED
      BY <1>3, <1>4, <2>2, <3>1, <3>2
  <2>3. CASE active = To
    BY <1>1, <1>2, <1>5, <2>1, <2>2, <2>3 DEF Gateway, Proven
  <2>4. CASE active # To
    BY <1>1, <1>2, <2>1, <2>2, <2>4 DEF Proven
  <2>5. QED
    BY <2>3, <2>4
<1>12. Back'
  BY <1>1, <1>2, <1>5 DEF Back
<1> QED
  BY <1>6, <1>7, <1>8, <1>9, <1>10, <1>11, <1>12

LEMMA RestoredKeeps ==
  ASSUME IInv, SwitchInv, Restored
  PROVE  SwitchInv'
<1> USE DEF Restored, AfterRollback, NoFiles, TypeOK, Tx
<1>1. Places'
  BY DEF AttemptSteps, RollbackSteps, RescueSteps, Places
<1>2. Gateway'
  BY DEF Hashes, Pid, File, Content, AttemptSteps, RollbackSteps, RescueSteps, Places, Gateway,
      Back
<1>3. Resting'
  BY DEF Hashes, Pid, File, Content, LockHeld, Holding, AttemptSteps, RollbackSteps,
      RescueSteps, Places, Resting, Stopped, Back
<1>4. Trying'
  BY DEF Trying, Back
<1>5. Stopped'
  BY DEF Stopped, Back
<1>6. Going' /\ Proven' /\ Back' /\ Rescued' /\ Foreign'
  BY DEF Going, Proven, Back, Rescued, Foreign
<1> QED
  BY <1>1, <1>2, <1>3, <1>4, <1>5, <1>6

LEMMA RollbackFailsKeeps ==
  ASSUME IInv, SwitchInv, RollbackFails
  PROVE  SwitchInv'
<1> USE DEF RollbackFails, MustResume, RollbackSteps, TypeOK, Tx
<1>1. Places' /\ Resting' /\ Trying' /\ Stopped' /\ Going' /\ Proven' /\ Back' /\ Rescued' /\ Foreign'
  BY DEF Places, Resting, Trying, Stopped, Going, Proven, Back, Rescued, Foreign
<1>2. Gateway'
  BY DEF Places, Gateway
<1> QED
  BY <1>1, <1>2

\* cancelSpaceSwitch and the rescue.
LEMMA CancelKeeps ==
  ASSUME IInv, SwitchInv, Cancel
  PROVE  SwitchInv'
<1> USE DEF Cancel, NoTx, NoFiles, TypeOK, Tx
<1>1. Places' /\ Gateway' /\ Trying' /\ Stopped' /\ Going' /\ Proven' /\ Back' /\ Rescued' /\ Foreign'
  BY DEF Places, Gateway, Trying, Stopped, Going, Proven, Back, Rescued, Foreign
<1>2. Resting'
  BY DEF Hashes, Pid, File, Content, PointerLast, Resting
<1> QED
  BY <1>1, <1>2

LEMMA RescueKeeps ==
  ASSUME IInv, SwitchInv, Rescue
  PROVE  SwitchInv'
<1> USE DEF Rescue, TypeOK, Tx
<1>1. Places'
  BY DEF AttemptSteps, RollbackSteps, RescueSteps, Places
<1>2. Gateway' /\ Resting' /\ Trying' /\ Stopped' /\ Going' /\ Proven' /\ Back' /\ Rescued' /\ Foreign'
  BY DEF Gateway, Resting, Trying, Stopped, Going, Proven, Back, Rescued, Foreign
<1> QED
  BY <1>1, <1>2

LEMMA RescueCodexKeeps ==
  ASSUME IInv, SwitchInv, RescueCodex
  PROVE  SwitchInv'
<1> USE DEF RescueCodex, IntegrateCodex, Write, TypeOK, Tx
<1>1. Places'
  BY DEF AttemptSteps, RollbackSteps, RescueSteps, Places
<1>2. Gateway' /\ Resting' /\ Trying' /\ Stopped' /\ Going' /\ Proven' /\ Back' /\ Foreign'
  BY DEF Gateway, Resting, Trying, Stopped, Going, Proven, Back, Foreign
<1>3. Rescued'
  BY DEF Hashes, Pid, File, Content, Rescued
<1> QED
  BY <1>1, <1>2, <1>3

LEMMA RescueCatalogKeeps ==
  ASSUME IInv, SwitchInv, RescueCatalog
  PROVE  SwitchInv'
<1> USE DEF RescueCatalog, IntegrateCatalog, Write, TypeOK, Tx
<1>1. Places'
  BY DEF AttemptSteps, RollbackSteps, RescueSteps, Places
<1>2. Gateway' /\ Resting' /\ Trying' /\ Stopped' /\ Going' /\ Proven' /\ Back' /\ Foreign'
  BY DEF Gateway, Resting, Trying, Stopped, Going, Proven, Back, Foreign
<1>3. Rescued'
  BY DEF Hashes, Pid, File, Content, Rescued
<1> QED
  BY <1>1, <1>2, <1>3

LEMMA RescueStateKeeps ==
  ASSUME IInv, SwitchInv, RescueState
  PROVE  SwitchInv'
<1> USE DEF RescueState, IntegrateState, TypeOK, Tx
<1>1. Places'
  BY DEF AttemptSteps, RollbackSteps, RescueSteps, Places
<1>2. Gateway' /\ Resting' /\ Trying' /\ Stopped' /\ Going' /\ Proven' /\ Back' /\ Rescued' /\ Foreign'
  BY DEF Gateway, Resting, Trying, Stopped, Going, Proven, Back, Rescued, Foreign
<1> QED
  BY <1>1, <1>2

LEMMA RescueServiceKeeps ==
  ASSUME IInv, SwitchInv, RescueService
  PROVE  SwitchInv'
<1> USE DEF RescueService, Down, TxPidGone, PidGone, TypeOK, Tx
<1>1. Places'
  BY DEF AttemptSteps, RollbackSteps, RescueSteps, Places
<1>2. Gateway' /\ Resting' /\ Trying' /\ Stopped' /\ Going' /\ Proven' /\ Back' /\ Rescued' /\ Foreign'
  BY DEF Gateway, Resting, Trying, Stopped, Going, Proven, Back, Rescued, Foreign
<1> QED
  BY <1>1, <1>2

LEMMA RescueClearKeeps ==
  ASSUME IInv, SwitchInv, RescueClear
  PROVE  SwitchInv'
<1> USE DEF RescueClear, NoTx, NoFiles, TypeOK, Tx
<1>1. Places'
  BY DEF AttemptSteps, RollbackSteps, RescueSteps, Places
<1>2. Gateway' /\ Trying' /\ Going' /\ Proven' /\ Back' /\ Rescued' /\ Foreign'
  BY DEF Gateway, Trying, Going, Proven, Back, Rescued, Foreign
<1>3. Resting'
  BY DEF Hashes, Pid, File, Content, Resting, Rescued
<1>4. Stopped'
  BY DEF Stopped, Rescued
<1> QED
  BY <1>1, <1>2, <1>3, <1>4

LEMMA RescueCommitKeeps ==
  ASSUME IInv, SwitchInv, RescueCommit
  PROVE  SwitchInv'
<1> USE DEF RescueCommit, TypeOK, Tx
<1>1. Places'
  BY DEF AttemptSteps, RollbackSteps, RescueSteps, Places
<1>2. Gateway' /\ Going' /\ Back' /\ Rescued' /\ Foreign'
  BY DEF Gateway, Going, Back, Rescued, Foreign
<1>3. Resting'
  BY Apart DEF LockHeld, Holding, Resting, Rescued
<1>4. Trying'
  BY DEF LockHeld, Holding, Trying
<1>5. Stopped'
  BY Apart DEF Stopped
<1>6. Proven'
  BY DEF LockHeld, Holding, Proven
<1> QED
  BY <1>1, <1>2, <1>3, <1>4, <1>5, <1>6

LEMMA RescueFailsKeeps ==
  ASSUME IInv, SwitchInv, RescueFails
  PROVE  SwitchInv'
<1> USE DEF RescueFails
<1>1. pc' = "idle" /\ pc \in RescueSteps
  OBVIOUS
<1>2. torn' <=> torn \/ pc # "rescueCodex"
  OBVIOUS
<1>3. Sound' => Sound
  BY <1>1, <1>2 DEF RescueSteps
<1>4. UNCHANGED <<file, integ, svc, active, tx, recovering, drainPid, byUser, atRest>>
  OBVIOUS
<1> HIDE DEF RescueFails, Sound
<1>5. Places' /\ Gateway' /\ Going' /\ Back' /\ Rescued' /\ Foreign'
  BY <1>1, <1>4 DEF Places, RollbackSteps, Gateway, Going, Back, Rescued, Foreign
<1>6. Resting'
  BY <1>1, <1>3, <1>4 DEF Resting
<1>7. Trying'
  BY <1>1, <1>3, <1>4 DEF Trying
<1>8. Stopped'
  BY <1>1, <1>2, <1>4 DEF Stopped
<1>9. Proven'
  BY <1>1, <1>3, <1>4 DEF Proven
<1> QED
  BY <1>5, <1>6, <1>7, <1>8, <1>9

\* The world around the commands.
LEMMA CrashKeeps ==
  ASSUME IInv, SwitchInv, Crash
  PROVE  SwitchInv'
<1> USE DEF Crash
<1>1. pc' = "idle" /\ drainPid' = Unset
  OBVIOUS
<1>2. torn' <=> torn \/ pc \in RescueSteps \ {"rescueCodex"}
  OBVIOUS
<1>3. Sound' => Sound
  BY <1>2 DEF RescueSteps
<1>4. UNCHANGED <<file, integ, svc, active, byUser, atRest>>
  OBVIOUS
<1>5. \/ /\ tx.stage = "none" /\ tx'.stage = "none" /\ tx'.app["gateway"] = Unset
         /\ ~tx'.skip /\ tx'.wasRunning = Unset
      \/ tx.stage # "none" /\ tx' = tx
  BY DEF NoTx, NoFiles, File
<1> HIDE DEF Crash, Sound
<1>6. Places'
  BY <1>1, <1>5, Apart DEF Places, RollbackSteps
<1>7. Gateway' /\ Going' /\ Back' /\ Rescued' /\ Foreign'
  BY <1>1, <1>4, <1>5 DEF Gateway, Going, Back, Rescued, Foreign
<1>8. Resting'
  BY <1>1, <1>3, <1>4, <1>5 DEF Resting
<1>9. Trying'
  BY <1>1, <1>3, <1>4, <1>5 DEF Trying
<1>10. Stopped'
  BY <1>1, <1>2, <1>4, <1>5 DEF Stopped
<1>11. Proven'
  BY <1>1, <1>3, <1>4, <1>5 DEF Proven
<1> QED
  BY <1>6, <1>7, <1>8, <1>9, <1>10, <1>11

LEMMA UserEditKeeps ==
  ASSUME IInv, SwitchInv, NEW f \in File, NEW c \in EditContent, UserEdit(f, c)
  PROVE  SwitchInv'
<1> USE DEF UserEdit, TypeOK, Tx
<1>1. Places' /\ Gateway' /\ Stopped' /\ Rescued' /\ Foreign'
  BY DEF Places, Gateway, Stopped, Rescued, Foreign
<1>2. Resting'
  BY DEF Service, Resting
<1>3. Trying'
  BY DEF Service, Trying
<1>4. Going'
  BY DEF Service, Going
<1>5. Proven'
  BY DEF Service, Proven
<1>6. Back'
  BY DEF Service, Back
<1> QED
  BY <1>1, <1>2, <1>3, <1>4, <1>5, <1>6

LEMMA ServiceRestartKeeps ==
  ASSUME IInv, SwitchInv, ServiceRestart
  PROVE  SwitchInv'
<1> USE DEF ServiceRestart, Started, TxPidGone, PidGone, TypeOK, Tx
<1>1. Places'
  BY Apart DEF Places
<1>2. Resting'
  BY Alike DEF Service, Resting
<1>3. Trying'
  BY Apart, Alike DEF Service, Hashes, Pid, File, Content, Places, Gateway, Resting, Trying
<1>4. Stopped' /\ Rescued' /\ Foreign'
  BY DEF Stopped, Rescued, Foreign
<1>5. Going'
  BY Alike DEF Service, Going
<1>6. Proven'
  BY Alike DEF Service, Gateway, Proven
<1>7. Back'
  BY Alike DEF Service, Back
<1>8. Gateway'
<2>1. /\ UNCHANGED <<file, active, byUser, pc, tx.stage, tx.source, tx.target, tx.src, tx.app, tx.skip>>
        /\ svc'.up /\ svc'.cfg = file["gateway"] /\ (svc'.cfgUser <=> "gateway" \in byUser)
    OBVIOUS
  <2>2. ASSUME tx.stage # "none", tx.skip
        PROVE  <<From, To>> \in ToolModeOnly /\ Runs(From)'
    <3>1. <<From, To>> \in ToolModeOnly /\ From \in Router
      BY <2>2, Alike DEF Gateway
    <3>2. "gateway" \in byUser \/ file["gateway"] = From \/ file["gateway"] = To
      BY <2>2, <3>1 DEF Gateway
    <3>3. svc'.cfgUser \/ <<svc'.cfg, From>> \in ToolModeOnly
      BY <2>1, <3>1, <3>2, Alike
    <3>4. QED
      BY <2>1, <3>1, <3>3
  <2> HIDE DEF ServiceRestart, TypeOK, Tx
  <2>3. QED
    BY <2>1, <2>2 DEF Gateway
<1> QED
  BY <1>1, <1>2, <1>3, <1>4, <1>5, <1>6, <1>7, <1>8

LEMMA AppToggleKeeps ==
  ASSUME IInv, SwitchInv, AppToggle
  PROVE  SwitchInv'
<1> USE DEF AppToggle, TypeOK, Tx
<1> QED
  BY DEF Places, Gateway, Resting, Trying, Stopped, Going, Proven, Back, Rescued, Foreign

LEMMA InitSwitchInv == Init => SwitchInv
<1> SUFFICES ASSUME Init PROVE SwitchInv
  OBVIOUS
<1> USE DEF Init
<1>1. pc = "idle" /\ tx.stage = "none" /\ ~Applied /\ ~tx.skip /\ tx.wasRunning = Unset
      /\ drainPid = Unset /\ ~torn /\ atRest = {}
  BY Apart DEF NoTx, NoFiles, File
<1>2. Good(active)
  <2>1. CASE active \in Router
    BY <2>1, Apart, Alike DEF File
  <2>2. CASE active = Protected
    BY <2>2, Apart DEF File, Down, Protected
  <2>3. QED
    BY <2>1, <2>2
<1> HIDE DEF Init
<1>3. Places /\ Gateway /\ Trying /\ Going /\ Proven /\ Back /\ Rescued /\ Foreign
  BY <1>1, Apart DEF Places, RollbackSteps, Gateway, Trying, Going, Proven, Back, Rescued, Foreign
<1>4. Resting /\ Stopped
  BY <1>1, <1>2 DEF Resting, Stopped
<1> QED
  BY <1>3, <1>4

HIDE DEF IInv, SwitchInv

LEMMA NextSwitchInv == IInv /\ SwitchInv /\ [Next]_vars => SwitchInv'
<1> SUFFICES ASSUME IInv, SwitchInv, [Next]_vars PROVE SwitchInv'
  OBVIOUS
<1>1. CASE Step
  BY <1>1, ReadSourceKeeps, PrepareKeeps, PrepareFailsKeeps, AppCheckKeeps, StartKeeps,
      CheckKeeps, NoDrainKeeps, DrainSignalKeeps, DrainNotLoadedKeeps, DrainNoHealthKeeps,
      DrainedKeeps, DrainTimeoutKeeps, DrainThrowsKeeps, RecheckKeeps, WriteGatewayKeeps,
      CheckpointKeeps, ExpectKeeps, ApplyCodexKeeps, ApplyCatalogKeeps, ApplyStateKeeps,
      CompareKeeps, ActivateServiceKeeps, ActivateServiceFailsKeeps, VerifyKeeps, CommitKeeps,
      ClearKeeps, AttemptFailsKeeps, RecommitKeeps, RecommitFailsKeeps, RollbackUntouchedKeeps,
      RollbackCheckKeeps, RestoreGatewayKeeps, RestoreCodexKeeps, RestoreCatalogKeeps,
      RestoreStateKeeps, RestoreServiceKeeps, RestoredKeeps, RollbackFailsKeeps,
      RescueCodexKeeps, RescueCatalogKeeps, RescueStateKeeps, RescueServiceKeeps,
      RescueClearKeeps, RescueCommitKeeps, RescueFailsKeeps DEF Step
<1>2. CASE Command
  BY <1>2, BeginKeeps, ResumeKeeps, ResumeVerifiedKeeps, CancelKeeps, RescueKeeps DEF Command
<1>3. CASE Environment
  BY <1>3, CrashKeeps, UserEditKeeps, ServiceRestartKeeps, AppToggleKeeps DEF Environment
<1>4. CASE UNCHANGED vars
  BY <1>4 DEF vars, SwitchInv, Places, Gateway, Resting, Trying, Stopped, Going, Proven, Back,
      Rescued, Foreign, RollbackSteps
<1>5. QED
  BY <1>1, <1>2, <1>3, <1>4 DEF Next

THEOREM AlwaysSwitchInv == Spec => [](IInv /\ SwitchInv)
<1>1. Init => IInv /\ SwitchInv
  BY InitIInv, InitSwitchInv
<1>2. IInv /\ SwitchInv /\ [Next]_vars => (IInv /\ SwitchInv)'
  BY NextIInv, NextSwitchInv
<1>3. QED
  BY <1>1, <1>2, PTL DEF Spec

\* Files and service, whenever no command runs: all or nothing, the service
\* follows the pointer, and what is reported as recovered has been restored, for
\* any revisions and any number of attempts, hand edits, crashes and restarts.
THEOREM SwitchIsSafe == Spec => []SwitchSafe
<1>1. IInv /\ SwitchInv => SwitchSafe
  <2> SUFFICES ASSUME IInv, SwitchInv PROVE SwitchSafe
    OBVIOUS
  <2> USE DEF SwitchInv
  <2>1. ASSUME NEW r, Good(r) PROVE Installed(r)
    BY <2>1 DEF Installed, File
  <2>2. Settled => Good(active)
    BY DEF Settled, Resting, Proven
  <2>3. AllOrNothing
    BY <2>1, <2>2 DEF AllOrNothing
  <2>4. ServiceFollowsPointer
    BY <2>2, Apart DEF ServiceFollowsPointer
  <2>5. RecoveredIsRestored
    <3>1. SUFFICES ASSUME Idle, ~torn, tx.stage = "failed", tx.recovered = "yes"
                   PROVE  /\ Installed(tx.source)
                          /\ tx.source \in Router <=> integ \in Router
                          /\ svc.up => tx.source \in Router /\ svc.accepting
      BY DEF RecoveredIsRestored
    <3>2. Good(From)
      BY <3>1 DEF Resting
    <3>3. QED
      BY <3>2, <2>1
  <2>6. QED
    BY <2>3, <2>4, <2>5 DEF SwitchSafe, IInv
<1>2. QED
  BY <1>1, AlwaysSwitchInv, PTL

\* Which places in the lock write a file.
LEMMA WhoWrites ==
  ASSUME Step, file' # file
  PROVE  pc \in {"writeGateway", "applyCodex", "applyCatalog", "restoreGateway",
                 "restoreCodex", "restoreCatalog"} \cup RescueSteps
<1> USE DEF Goto, world, IntegrateCodex, IntegrateCatalog, IntegrateState, RescueSteps
<1>1. ~(ReadSource \/ Prepare \/ PrepareFails \/ AppCheck \/ Start \/ Check \/ NoDrain)
  BY DEF ReadSource, Prepare, PrepareFails, AppCheck, Start, Check, NoDrain
<1>2. ~(DrainSignal \/ DrainNotLoaded \/ DrainNoHealth \/ Drained \/ DrainTimeout \/ DrainThrows)
  BY DEF DrainSignal, DrainNotLoaded, DrainNoHealth, Drained, DrainTimeout, DrainThrows
<1>3. ~(Recheck \/ Checkpoint \/ Expect \/ ApplyState \/ Compare \/ ActivateService
        \/ ActivateServiceFails)
  BY DEF Recheck, Checkpoint, Expect, ApplyState, Compare, ActivateService, ActivateServiceFails
<1>4. ~(Verify \/ Commit \/ Clear \/ AttemptFails \/ Recommit \/ RecommitFails)
  BY DEF Verify, Commit, Clear, AttemptFails, Recommit, RecommitFails
<1>5. ~(RollbackUntouched \/ RollbackCheck \/ RestoreState \/ RestoreService \/ Restored
        \/ RollbackFails)
  BY DEF RollbackUntouched, RollbackCheck, RestoreState, RestoreService, Restored, RollbackFails
<1>6. CASE WriteGateway \/ ApplyCodex \/ ApplyCatalog
  BY <1>6 DEF WriteGateway, ApplyCodex, ApplyCatalog
<1>7. CASE RestoreGateway \/ RestoreCodex \/ RestoreCatalog
  BY <1>7 DEF RestoreGateway, RestoreCodex, RestoreCatalog
<1>8. CASE RescueCodex \/ RescueCatalog \/ RescueState \/ RescueService
  BY <1>8 DEF RescueCodex, RescueCatalog, RescueState, RescueService
<1>9. CASE RescueClear \/ RescueCommit \/ RescueFails
  BY <1>9 DEF RescueClear, RescueCommit, RescueFails
<1>10. QED
  BY <1>1, <1>2, <1>3, <1>4, <1>5, <1>6, <1>7, <1>8, <1>9 DEF Step

\* An edit made at rest is overwritten by no attempt, recovery or rollback.
THEOREM EditsAtRestKept == Spec => EditAtRestSurvives
<1> DEFINE Survives == \A f \in atRest : \/ file'[f] = file[f]
                                         \/ edits' # edits
                                         \/ pc \in RescueSteps
<1>1. IInv /\ SwitchInv /\ [Next]_vars => [Survives]_vars
  <2> SUFFICES ASSUME IInv, SwitchInv, Next, NEW f \in atRest, file'[f] # file[f]
               PROVE  edits' # edits \/ pc \in RescueSteps
    BY DEF vars, world
  <2> USE DEF world
  <2>1. pc \in {"idle", "start", "check", "rollback"} \cup Draining
    BY DEF SwitchInv, Foreign
  <2>2. CASE Step
    BY <2>1, <2>2, WhoWrites DEF Draining
  <2>3. CASE Command
    BY <2>3 DEF Command, Begin, Resume, ResumeVerified, Cancel, Rescue
  <2>4. CASE Environment
    BY <2>4 DEF Environment, Crash, ServiceRestart, AppToggle, UserEdit, TypeOK, IInv
  <2>5. QED
    BY <2>2, <2>3, <2>4 DEF Next
<1>2. QED
  BY <1>1, AlwaysSwitchInv, PTL DEF Spec, EditAtRestSurvives
=============================================================================
