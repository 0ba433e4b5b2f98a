-------------------------- MODULE Renewal_proofs --------------------------
(* The types of Renewal, with no assumption; then its safety properties,   *)
(* for a process that does not run the pending-binding refresh: IInv is    *)
(* inductive, one lemma per action. The first step of each says what the   *)
(* action does to the fields the invariant speaks of; the others take the  *)
(* invariant's parts in turn. Then the action properties that follow from  *)
(* it, that Renewal implements CloudCopies, and what listeners serve.      *)
EXTENDS RenewalInvariant, TLAPS

\* The initial state is well typed.
LEMMA TypeInit == Init => TypeOK
<1> SUFFICES ASSUME Init PROVE TypeOK
  OBVIOUS
<1> USE IdsAssumption, OrdersAssumption, BoundsAssumption DEF Init
<1>1. row \in RowType
  BY DEF RowType, BlankRow
<1>2. order \in OrderType
  BY DEF OrderType, NoOrder
<1>3. StoreType
  BY <1>1, <1>2 DEF StoreType
<1>4. AcmeType
  BY DEF AcmeType, Certs
<1>5. task \in TaskType
  BY DEF TaskType, NoTask
<1>6. CloudType
  BY <1>5 DEF CloudType
<1>7. pc \in Pcs /\ pass \in PassType
  BY <1>1 DEF PassType, Pcs, Blank
<1>8. refresh \in RefreshType
  BY <1>1 DEF RefreshType, NoRefresh
<1>9. mem \in MemType
  BY DEF MemType, FreshMem
<1>10. mishaps \in 0..MaxMishaps
  OBVIOUS
<1>11. desired \in Configs /\ reaping \in Ids \cup {NoId} /\ hot \in BOOLEAN
  OBVIOUS
<1> QED
  BY <1>3, <1>4, <1>6, <1>7, <1>8, <1>9, <1>10, <1>11 DEF TypeOK

\* Every step keeps the state well typed.
LEMMA TypeStep == ASSUME TypeInv, [Next]_vars PROVE TypeOK'
<1> USE OrdersAssumption, BoundsAssumption
<1> USE DEF TypeInv
<1>r. row \in RowType
  BY DEF TypeOK, StoreType
<1>p. pc \in Pcs /\ pass \in PassType
  BY DEF TypeOK
<1>b. pass.st \in RowType /\ refresh.st \in RowType /\ desired \in Configs
  BY DEF TypeOK, PassType, RefreshType
<1>o. order \in OrderType
  BY DEF TypeOK, StoreType
<1>m. mishaps \in 0..MaxMishaps
  BY DEF TypeOK
<1>e. mem \in MemType
  BY DEF TypeOK
<1>c. /\ refresh \in RefreshType /\ CloudType /\ AcmeType
      /\ retired \subseteq Ids /\ abandoned \subseteq Ids
  BY DEF TypeOK, StoreType
<1>n. NoOrder \in OrderType /\ NoTask \in TaskType /\ NoRefresh \in RefreshType
  BY OrdersAssumption DEF NoOrder, OrderType, NoTask, TaskType, NoRefresh, RefreshType,
     BlankRow, RowType
<1>t. task \in TaskType
  BY DEF TypeOK, CloudType
<1>d. /\ row.dep \in Ids \cup {NoId} /\ pass.st.dep \in Ids \cup {NoId}
      /\ order.dep \in Ids \cup {NoId} /\ pass.new \in Ids \cup {NoId}
      /\ pass.orphan \in Ids \cup {NoId}
  BY <1>r, <1>p, <1>b, <1>o DEF RowType, OrderType, PassType
<1>h. /\ pc = "anchor" => pass.new \in Ids
      /\ pc \in EpiloguePcs /\ pass.out \in {"rebound", "unverified", "nothing"}
           => pass.st.dep \in Ids
      /\ InProgress(task) => task.to \in Ids
  BY <1>d, <1>t DEF InHand, TaskType
<1>i. Blank \in PassType
  BY DEF Blank, PassType, BlankRow, RowType, Pcs
<1>1. CASE Begin
  <2>1. pc' \in Pcs /\ pass' \in PassType
    BY <1>1, <1>p, <1>i, <1>r, <1>b DEF Begin, PassType, Pcs, Blank
  <2> QED
    BY <1>1, <1>b, <1>i, <2>1 DEF Begin, TypeOK, StoreType, AcmeType, CloudType, store,
         acme, cloud, running
<1>2. CASE BeginUnreadable
  <2>1. row' \in RowType
    BY <1>2, <1>r, <1>p, <1>b, <1>o, <1>c DEF BeginUnreadable, FailureColumns, RowType
  <2>2. mem' \in MemType
    BY <1>2, <1>e, BoundsAssumption DEF BeginUnreadable, KeepDeadline, MemType
  <2>3. mishaps' \in 0..MaxMishaps
    BY <1>2, <1>m, BoundsAssumption DEF BeginUnreadable, Mishap
  <2> QED
    BY <1>2, <1>b, <1>i, <2>1, <2>2, <2>3 DEF BeginUnreadable, TypeOK, StoreType,
         AcmeType, CloudType, store, acme, cloud, running
<1>3. CASE ReadOrder
  <2>1. pc' \in Pcs /\ pass' \in PassType
    BY <1>3, <1>p DEF ReadOrder, Goto, GiveUp, Finish, PassType, Pcs, running
  <2>2. mishaps' \in 0..MaxMishaps
    BY <1>3, <1>m, BoundsAssumption DEF ReadOrder, Works, Fails, Mishap
  <2> QED
    BY <1>3, <1>b, <1>i, <2>1, <2>2 DEF ReadOrder, TypeOK, StoreType, AcmeType,
         CloudType, store, acme, cloud, running
<1>4. CASE Discard
  <2>1. pc' \in Pcs /\ pass' \in PassType
    BY <1>4, <1>p, <1>o, <1>r DEF Discard, Goto, GiveUp, Finish, PassType, Pcs, running,
         ChooseOrphan, Orphan, OrderType, RowType
  <2>2. mishaps' \in 0..MaxMishaps
    BY <1>4, <1>m, BoundsAssumption DEF Discard, ChooseOrphan, Works, Fails, Mishap
  <2>3. abandoned' \subseteq Ids
    BY <1>4, <1>r, <1>p, <1>b, <1>o, <1>c DEF Discard, ChooseOrphan, OrderType
  <2> QED
    BY <1>4, <1>b, <1>i, <2>1, <2>2, <2>3 DEF Discard, TypeOK, StoreType, AcmeType,
         CloudType, store, acme, cloud, running
<1>5. CASE DropOrder
  <2>1. pc' \in Pcs /\ pass' \in PassType
    <3>1. CASE pass.then = "idle"
      BY <1>5, <1>p, <1>i, <3>1 DEF DropOrder, OrderDropped, DropFails, GiveUp, Goto, Finish, Pcs
    <3>2. CASE pass.then # "idle"
      <4>1. pass.then \in Pcs
        BY <1>5, <1>p, <3>2 DEF DropOrder, InHand, PassType, Pcs
      <4>2. [pass EXCEPT !.then = "none", !.orphan = NoId] \in PassType
        BY <1>p DEF PassType
      <4> QED
        BY <1>5, <1>p, <3>2, <4>1, <4>2 DEF DropOrder, OrderDropped, DropFails, GiveUp, Goto, Pcs
    <3> QED
      BY <3>1, <3>2
  <2>2. mishaps' \in 0..MaxMishaps
    BY <1>5, <1>m, BoundsAssumption DEF DropOrder, Works, Fails, Mishap
  <2>3. retired' \subseteq Ids
    BY <1>5, <1>r, <1>p, <1>b, <1>o, <1>c, OrdersAssumption DEF DropOrder, OrderDropped,
         DropFails, AddRetired, PassType
  <2>4. order' \in OrderType
    BY <1>5, <1>o, <1>n DEF DropOrder, OrderDropped, DropFails
  <2>5. mem' \in MemType
    BY <1>5, <1>e, BoundsAssumption DEF DropOrder, OrderDropped, DropFails, MemType
  <2> QED
    BY <1>5, <1>b, <1>i, <2>1, <2>2, <2>3, <2>4, <2>5 DEF DropOrder, TypeOK, StoreType,
         AcmeType, CloudType, store, acme, cloud, running
<1>6. CASE ConfirmBinding
  <2>1. pc' \in Pcs /\ pass' \in PassType
    BY <1>6, <1>p, <1>r, <1>b DEF ConfirmBinding, PassType, RowType
  <2>2. row' \in RowType
    BY <1>6, <1>r, <1>p, <1>b, <1>o, <1>c DEF ConfirmBinding, PassType, RowType
  <2>3. mishaps' \in 0..MaxMishaps
    BY <1>6, <1>m, BoundsAssumption DEF ConfirmBinding, Works, Fails, Mishap
  <2> QED
    BY <1>6, <1>b, <1>i, <2>1, <2>2, <2>3 DEF ConfirmBinding, TypeOK, StoreType,
         AcmeType, CloudType, store, acme, cloud, running
<1>7. CASE Decide
  <2>1. pc' \in Pcs /\ pass' \in PassType
    BY <1>7, <1>p, <1>i DEF Decide, Goto, GiveUp, Finish, PassType, Pcs, running
  <2> QED
    BY <1>7, <1>b, <1>i, <2>1 DEF Decide, TypeOK, StoreType, AcmeType, CloudType, store,
         acme, cloud, running
<1>8. CASE Issue
  <2>1. pc' \in Pcs /\ pass' \in PassType
    BY <1>8, <1>p DEF Issue, Goto, GiveUp, Finish, PassType, Pcs, running
  <2>2. AcmeType'
    BY <1>8, <1>r, <1>p, <1>b, <1>o, <1>c, OrdersAssumption DEF Issue, TypeOK, AcmeType, Certs,
         acme
  <2> QED
    BY <1>8, <1>b, <1>i, <2>1, <2>2 DEF Issue, TypeOK, StoreType, AcmeType, CloudType,
         store, acme, cloud, running
<1>9. CASE Record
  <2>1. pc' \in Pcs /\ pass' \in PassType
    BY <1>9, <1>p DEF Record, Goto, GiveUp, Finish, PassType, Pcs, running
  <2>2. order' \in OrderType
    <3>1. placed \in 0..MaxOrders
      BY DEF TypeOK, AcmeType
    <3>2. pass.cfg.ids \in DomainSets \cup {NoIds}
      BY <1>p DEF PassType, DomainSets, NoConfig
    <3> QED
      BY <1>9, <1>o, <1>n, <3>1, <3>2 DEF Record, NoOrder, OrderType
  <2>3. mishaps' \in 0..MaxMishaps
    BY <1>9, <1>m, BoundsAssumption DEF Record, Works, Fails, Mishap
  <2> QED
    BY <1>9, <1>b, <1>i, <2>1, <2>2, <2>3 DEF Record, TypeOK, StoreType, AcmeType,
         CloudType, store, acme, cloud, running
<1>10. CASE FetchFails
  <2>1. pc' \in Pcs /\ pass' \in PassType
    BY <1>10, <1>p DEF FetchFails, Goto, GiveUp, Finish, PassType, Pcs, running
  <2>2. mem' \in MemType
    BY <1>10, <1>e, BoundsAssumption DEF FetchFails, MemType
  <2> QED
    BY <1>10, <1>b, <1>i, <2>1, <2>2 DEF FetchFails, TypeOK, StoreType, AcmeType,
         CloudType, store, acme, cloud, running
<1>11. CASE Advance
  <2>1. pc' \in Pcs /\ pass' \in PassType
    BY <1>11, <1>p DEF Advance, Goto, GiveUp, Finish, PassType, Pcs, running
  <2>2. mem' \in MemType
    BY <1>11, <1>e, BoundsAssumption DEF Advance, MemType
  <2>3. mishaps' \in 0..MaxMishaps
    BY <1>11, <1>m, BoundsAssumption DEF Advance, Works, Fails, Mishap
  <2> QED
    BY <1>11, <1>b, <1>i, <2>1, <2>2, <2>3 DEF Advance, TypeOK, StoreType, AcmeType,
         CloudType, store, acme, cloud, running
<1>12. CASE Solve
  <2>1. pc' \in Pcs /\ pass' \in PassType
    BY <1>12, <1>p DEF Solve, Goto, GiveUp, Finish, PassType, Pcs, running
  <2>2. AcmeType'
    BY <1>12, <1>r, <1>p, <1>b, <1>o, <1>c DEF Solve, TypeOK, AcmeType, Certs
  <2>3. mishaps' \in 0..MaxMishaps
    BY <1>12, <1>m, BoundsAssumption DEF Solve, Works, Fails, Mishap
  <2> QED
    BY <1>12, <1>b, <1>i, <2>1, <2>2, <2>3 DEF Solve, TypeOK, StoreType, AcmeType,
         CloudType, store, acme, cloud, running
<1>13. CASE Download
  <2>1. pc' \in Pcs /\ pass' \in PassType
    BY <1>13, <1>p, <1>i, <1>o DEF Download, Goto, GiveUp, Finish, PassType, Pcs, running,
         OrderType
  <2> QED
    BY <1>13, <1>b, <1>i, <2>1 DEF Download, TypeOK, StoreType, AcmeType, CloudType,
         store, acme, cloud, running
<1>14. CASE Upload
  <2>1. pc' \in Pcs /\ pass' \in PassType
    BY <1>14, <1>p DEF Upload, Goto, GiveUp, Finish, PassType, Pcs, running
  <2>2. CloudType'
    BY <1>14, <1>r, <1>p, <1>b, <1>o, <1>c DEF Upload, TypeOK, CloudType, OrderType
  <2> QED
    BY <1>14, <1>b, <1>i, <2>1, <2>2 DEF Upload, TypeOK, StoreType, AcmeType, CloudType,
         store, acme, cloud, running
<1>15. CASE Anchor
  <2>1. pc' \in Pcs /\ pass' \in PassType
    BY <1>15, <1>p DEF Anchor, Goto, GiveUp, Finish, PassType, Pcs, running
  <2>2. order' \in OrderType
    BY <1>15, <1>r, <1>p, <1>b, <1>o, <1>c DEF Anchor, PassType, OrderType
  <2>3. retired' \subseteq Ids
    BY <1>15, <1>h, <1>c DEF Anchor, AddRetired
  <2>4. abandoned' \subseteq Ids
    BY <1>15, <1>h, <1>c DEF Anchor
  <2>5. mishaps' \in 0..MaxMishaps
    BY <1>15, <1>m, BoundsAssumption DEF Anchor, Works, Fails, Mishap
  <2> QED
    BY <1>15, <1>b, <1>i, <2>1, <2>2, <2>3, <2>4, <2>5 DEF Anchor, TypeOK, StoreType,
         AcmeType, CloudType, store, acme, cloud, running
<1>16. CASE Switch
  <2>1. pc' \in Pcs /\ pass' \in PassType
    BY <1>16, <1>p DEF Switch, Goto, GiveUp, Finish, PassType, Pcs, running, SwitchError
  <2>2. CloudType'
    <3>1. [from |-> pass.st.dep, to |-> pass.new, todo |-> BoundTo(pass.st.dep),
           failed |-> FALSE] \in TaskType
      BY <1>d DEF TaskType, BoundTo
    <3>2. task' \in TaskType
      BY <1>16, <1>t, <3>1 DEF Switch
    <3> QED
      BY <1>16, <1>c, <3>2 DEF Switch, CloudType
  <2> QED
    BY <1>16, <1>b, <1>i, <2>1, <2>2 DEF Switch, TypeOK, StoreType, AcmeType, CloudType,
         store, acme, cloud, running
<1>17. CASE AwaitSwitch
  <2>1. pc' \in Pcs /\ pass' \in PassType
    BY <1>17, <1>p DEF AwaitSwitch, Goto, GiveUp, Finish, PassType, Pcs, running, SwitchDone,
         SwitchError
  <2>2. CloudType'
    <3>1. task' \in TaskType
      BY <1>17, <1>t, <1>n DEF AwaitSwitch
    <3> QED
      BY <1>17, <1>c, <3>1 DEF AwaitSwitch, CloudType
  <2> QED
    BY <1>17, <1>b, <1>i, <2>1, <2>2 DEF AwaitSwitch, TypeOK, StoreType, AcmeType,
         CloudType, store, acme, cloud, running
<1>18. CASE AwaitAdopted
  <2>1. pc' \in Pcs /\ pass' \in PassType
    BY <1>18, <1>p DEF AwaitAdopted, Goto, GiveUp, Finish, PassType, Pcs, running, SwitchDone,
         SwitchError
  <2>2. CloudType'
    <3>1. task' \in TaskType
      BY <1>18, <1>t, <1>n DEF AwaitAdopted
    <3> QED
      BY <1>18, <1>c, <3>1 DEF AwaitAdopted, CloudType
  <2> QED
    BY <1>18, <1>b, <1>i, <2>1, <2>2 DEF AwaitAdopted, TypeOK, StoreType, AcmeType,
         CloudType, store, acme, cloud, running
<1>19. CASE EnumerateNew
  <2>1. pc' \in Pcs /\ pass' \in PassType
    <3>1. CASE AfterNewEnumerated
      BY <1>p, <3>1 DEF AfterNewEnumerated, PassType, Pcs
    <3>2. CASE Verdict
      BY <1>p, <3>2 DEF Verdict, GiveUp, Goto, PassType, Pcs
    <3> QED
      BY <1>19, <3>1, <3>2 DEF EnumerateNew
  <2> QED
    BY <1>19, <1>b, <1>i, <2>1 DEF EnumerateNew, TypeOK, StoreType, AcmeType, CloudType,
         store, acme, cloud, running
<1>20. CASE EnumerateOld
  <2>1. pc' \in Pcs /\ pass' \in PassType
    <3>1. CASE pc' = "promote" /\ pass' = [pass EXCEPT !.err = "none"]
      BY <1>p, <3>1 DEF PassType, Pcs
    <3>2. CASE Verdict
      BY <1>p, <3>2 DEF Verdict, GiveUp, Goto, PassType, Pcs
    <3> QED
      BY <1>20, <3>1, <3>2 DEF EnumerateOld
  <2> QED
    BY <1>20, <1>b, <1>i, <2>1 DEF EnumerateOld, TypeOK, StoreType, AcmeType, CloudType,
         store, acme, cloud, running
<1>21. CASE Promote
  <2>1. pc' \in Pcs /\ pass' \in PassType
    BY <1>21, <1>p, <1>o, <1>r DEF Promote, Goto, GiveUp, Finish, PassType, Pcs, running,
         ChooseOrphan, Orphan, OrderType, RowType
  <2>2. mishaps' \in 0..MaxMishaps
    BY <1>21, <1>m, BoundsAssumption DEF Promote, ChooseOrphan, Works, Fails, Mishap
  <2>3. abandoned' \subseteq Ids
    BY <1>21, <1>r, <1>p, <1>b, <1>o, <1>c DEF Promote, ChooseOrphan, OrderType
  <2> QED
    BY <1>21, <1>b, <1>i, <2>1, <2>2, <2>3 DEF Promote, TypeOK, StoreType, AcmeType,
         CloudType, store, acme, cloud, running
<1>22. CASE Commit
  <2>1. pc' \in Pcs /\ pass' \in PassType
    BY <1>22, <1>p, <1>i DEF Commit, Goto, GiveUp, Finish, PassType, Pcs, running
  <2>2. row' \in RowType
    <3>1. Promoted \in RowType
      BY <1>o, <1>d DEF Promoted, OrderType, RowType
    <3> QED
      BY <1>22, <1>r, <3>1 DEF Commit
  <2>3. order' \in OrderType
    BY <1>22, <1>o, <1>n DEF Commit
  <2>4. retired' \subseteq Ids
    BY <1>22, <1>h, <1>c, <1>d DEF Commit, AddRetired, Retires, EpiloguePcs
  <2>5. abandoned' \subseteq Ids
    BY <1>22, <1>c, <1>d DEF Commit
  <2>6. mishaps' \in 0..MaxMishaps
    BY <1>22, <1>m, BoundsAssumption DEF Commit, Works, Fails, Mishap
  <2> QED
    BY <1>22, <1>b, <1>i, <2>1, <2>2, <2>3, <2>4, <2>5, <2>6 DEF Commit, TypeOK,
         StoreType, AcmeType, CloudType, store, acme, cloud, running
<1>23. CASE RecordFailure
  <2>1. pc' \in Pcs /\ pass' \in PassType
    BY <1>23, <1>p, <1>i DEF RecordFailure, Pcs, Finish
  <2>2. row' \in RowType
    BY <1>23, <1>r, <1>p, <1>b, <1>o, <1>c DEF RecordFailure, RowType
  <2>3. mem' \in MemType
    BY <1>23, <1>e, BoundsAssumption DEF RecordFailure, KeepDeadline, MemType
  <2>4. mishaps' \in 0..MaxMishaps
    BY <1>23, <1>m, BoundsAssumption DEF RecordFailure, Works, Fails, Mishap
  <2> QED
    BY <1>23, <1>b, <1>i, <2>1, <2>2, <2>3, <2>4 DEF RecordFailure, TypeOK, StoreType,
         AcmeType, CloudType, store, acme, cloud, running
<1>24. CASE RefreshRead
  <2>1. refresh' \in RefreshType
    BY <1>24, <1>r, <1>p, <1>b, <1>o, <1>c DEF RefreshRead, RefreshType
  <2> QED
    BY <1>24, <1>b, <1>i, <2>1 DEF RefreshRead, TypeOK, StoreType, AcmeType, CloudType,
         store, acme, cloud, running
<1>25. CASE RefreshLookup
  <2>1. refresh' \in RefreshType
    BY <1>25, <1>c, <1>n DEF RefreshLookup, RefreshType
  <2> QED
    BY <1>25, <1>b, <1>i, <2>1 DEF RefreshLookup, TypeOK, StoreType, AcmeType, CloudType,
         store, acme, cloud, running
<1>26. CASE RefreshWrite
  <2>1. row' \in RowType
    BY <1>26, <1>r, <1>p, <1>b, <1>o, <1>c DEF RefreshWrite, RowType
  <2>2. mishaps' \in 0..MaxMishaps
    BY <1>26, <1>m, BoundsAssumption DEF RefreshWrite, Works, Fails, Mishap
  <2>3. refresh' \in RefreshType
    BY <1>26, <1>n DEF RefreshWrite
  <2> QED
    BY <1>26, <1>b, <1>i, <2>1, <2>2, <2>3 DEF RefreshWrite, TypeOK, StoreType, AcmeType,
         CloudType, store, acme, cloud, running
<1>27. CASE ReapDelete
  <2>1. CloudType' /\ reaping' \in Ids
    BY <1>27, <1>r, <1>p, <1>b, <1>o, <1>c DEF ReapDelete, TypeOK, CloudType, Gone, BoundTo
  <2> QED
    BY <1>27, <1>b, <1>i, <2>1 DEF ReapDelete, TypeOK, StoreType, AcmeType, CloudType,
         store, acme, cloud, running
<1>28. CASE ReapForget
  <2>1. retired' \subseteq Ids
    BY <1>28, <1>c DEF ReapForget
  <2>2. mishaps' \in 0..MaxMishaps
    BY <1>28, <1>m, BoundsAssumption DEF ReapForget, Works, Fails, Mishap
  <2> QED
    BY <1>28, <1>b, <1>i, <2>1, <2>2 DEF ReapForget, TypeOK, StoreType, AcmeType, CloudType,
         store, acme, cloud, running
<1>29. CASE CADecides
  <2>1. AcmeType'
    BY <1>29, <1>r, <1>p, <1>b, <1>o, <1>c DEF CADecides, TypeOK, AcmeType, Certs
  <2> QED
    BY <1>29, <1>b, <1>i, <2>1 DEF CADecides, TypeOK, StoreType, AcmeType, CloudType,
         store, acme, cloud, running
<1>30. CASE TaskStep
  <2>1. CloudType'
    <3>1. PICK l \in task.todo :
            \/ /\ bound' = [bound EXCEPT ![l] = task.to]
               /\ served' = served \cup {task.to}
               /\ task' = [task EXCEPT !.todo = @ \ {l}]
            \/ /\ task' = [task EXCEPT !.todo = @ \ {l}, !.failed = TRUE]
               /\ UNCHANGED <<bound, served>>
      BY <1>30 DEF TaskStep
    <3>2. task.to \in Ids
      BY <1>h, <3>1 DEF InProgress
    <3>3. task' \in TaskType
      BY <1>t, <3>1 DEF TaskType
    <3>4. bound' \in [Listeners -> Ids \cup {NoId}] /\ served' \subseteq Ids
      BY <1>c, <3>1, <3>2 DEF CloudType
    <3> QED
      BY <1>30, <1>c, <3>3, <3>4 DEF TaskStep, CloudType
  <2> QED
    BY <1>30, <1>b, <1>i, <2>1 DEF TaskStep, TypeOK, StoreType, AcmeType, CloudType,
         store, acme, cloud, running
<1>31. CASE Bind
  <2>1. CloudType'
    BY <1>31, <1>r, <1>p, <1>b, <1>o, <1>c DEF Bind, TypeOK, CloudType, RowType, BoundTo
  <2> QED
    BY <1>31, <1>b, <1>i, <2>1 DEF Bind, TypeOK, StoreType, AcmeType, CloudType, store,
         acme, cloud, running
<1>32. CASE Unbind
  <2>1. CloudType'
    BY <1>32, <1>r, <1>p, <1>b, <1>o, <1>c DEF Unbind, TypeOK, CloudType, BoundTo
  <2> QED
    BY <1>32, <1>b, <1>i, <2>1 DEF Unbind, TypeOK, StoreType, AcmeType, CloudType, store,
         acme, cloud, running
<1>33. CASE Edit
  <2>1. mishaps' \in 0..MaxMishaps
    BY <1>33, <1>m, BoundsAssumption DEF Edit, Mishap
  <2> QED
    BY <1>33, <1>b, <1>i, <2>1 DEF Edit, TypeOK, StoreType, AcmeType, CloudType, store,
         acme, cloud, running
<1>34. CASE OrderExpires
  <2>1. order' \in OrderType
    BY <1>34, <1>r, <1>p, <1>b, <1>o, <1>c DEF OrderExpires, OrderType
  <2> QED
    BY <1>34, <1>b, <1>i, <2>1 DEF OrderExpires, TypeOK, StoreType, AcmeType, CloudType,
         store, acme, cloud, running
<1>35. CASE BackoffElapses
  <2>1. row' \in RowType
    BY <1>35, <1>r DEF BackoffElapses, RowType
  <2>3. mem' \in MemType
    BY <1>35, <1>e, BoundsAssumption DEF BackoffElapses, MemType
  <2>2. refresh' \in RefreshType
    BY <1>35, <1>r, <1>p, <1>b, <1>o, <1>c DEF BackoffElapses, RefreshType, RowType
  <2> QED
    BY <1>35, <1>b, <1>i, <2>1, <2>2, <2>3 DEF BackoffElapses, TypeOK, StoreType, AcmeType,
         CloudType, store, acme, cloud, running
<1>36. CASE Restart
  <2>1. pc' \in Pcs /\ pass' \in PassType
    BY <1>36, <1>p, <1>i DEF Restart, Pcs, Finish, Stop
  <2>2. refresh' \in RefreshType /\ mem' \in MemType
    BY <1>36, <1>r, <1>p, <1>b, <1>o, <1>c DEF Restart, Stop, RefreshType, MemType, NoRefresh,
         FreshMem, BlankRow, RowType
  <2> QED
    BY <1>36, <1>b, <1>i, <2>1, <2>2 DEF Restart, Stop, TypeOK, StoreType, AcmeType,
         CloudType, store, acme, cloud, running
<1>37. CASE Crash
  <2>1. pc' \in Pcs /\ pass' \in PassType
    BY <1>37, <1>p, <1>i DEF Crash, Pcs, Finish, Stop
  <2>2. refresh' \in RefreshType /\ mem' \in MemType
    BY <1>37, <1>r, <1>p, <1>b, <1>o, <1>c DEF Crash, Stop, RefreshType, MemType, NoRefresh,
         FreshMem, BlankRow, RowType
  <2>3. mishaps' \in 0..MaxMishaps
    BY <1>37, <1>m, BoundsAssumption DEF Crash, Mishap
  <2> QED
    BY <1>37, <1>b, <1>i, <2>1, <2>2, <2>3 DEF Crash, Stop, TypeOK, StoreType, AcmeType,
         CloudType, store, acme, cloud, running
<1>38. CASE UNCHANGED vars
  BY <1>38 DEF vars, TypeOK, StoreType, AcmeType, CloudType
<1> QED
  BY <1>1, <1>2, <1>3, <1>4, <1>5, <1>6, <1>7, <1>8, <1>9, <1>10, <1>11, <1>12, <1>13, <1>14,
       <1>15, <1>16, <1>17, <1>18, <1>19, <1>20, <1>21, <1>22, <1>23, <1>24, <1>25, <1>26,
       <1>27, <1>28, <1>29, <1>30, <1>31, <1>32, <1>33, <1>34, <1>35, <1>36, <1>37, <1>38 DEF
       Next, PassStep, RefreshStep, ReapStep, CloudStep, OperatorStep, ClockStep

\* Every step keeps something in hand wherever the pass uses it.
LEMMA HandStep == ASSUME TypeInv, [Next]_vars PROVE InHand'
<1> USE DEF TypeInv, InHand, SwitchPcs, EpiloguePcs
<1>p. pc \in Pcs /\ pass \in PassType
  BY DEF TypeOK
<1>t. task \in TaskType
  BY DEF TypeOK, CloudType
<1>1. CASE Begin
  BY <1>1, <1>p DEF Begin, PassType, running, cloud
<1>2. CASE BeginUnreadable
  BY <1>2, <1>p DEF BeginUnreadable, PassType, running, cloud
<1>3. CASE ReadOrder
  BY <1>3, <1>p DEF ReadOrder, Goto, GiveUp, Finish, PassType, running, cloud
<1>4. CASE Discard
  BY <1>4, <1>p DEF Discard, ChooseOrphan, Goto, GiveUp, Finish, PassType, running, cloud
<1>5. CASE DropOrder
  BY <1>5, <1>p DEF DropOrder, OrderDropped, DropFails, Finish, GiveUp, Goto, PassType,
     running, cloud
<1>6. CASE ConfirmBinding
  BY <1>6, <1>p DEF ConfirmBinding, Goto, GiveUp, Finish, PassType, running, cloud
<1>7. CASE Decide
  BY <1>7, <1>p DEF Decide, Goto, GiveUp, Finish, PassType, running, cloud
<1>8. CASE Issue
  BY <1>8, <1>p DEF Issue, Goto, GiveUp, Finish, PassType, running, cloud
<1>9. CASE Record
  BY <1>9, <1>p DEF Record, Goto, GiveUp, Finish, PassType, running, cloud
<1>10. CASE FetchFails
  BY <1>10, <1>p DEF FetchFails, Goto, GiveUp, Finish, PassType, running, cloud
<1>11. CASE Advance
  BY <1>11, <1>p DEF Advance, Goto, GiveUp, Finish, PassType, running, cloud
<1>12. CASE Solve
  BY <1>12, <1>p DEF Solve, Goto, GiveUp, Finish, PassType, running, cloud
<1>13. CASE Download
  BY <1>13, <1>p DEF Download, Goto, GiveUp, Finish, PassType, running, cloud
<1>14. CASE Upload
  BY <1>14, <1>p, IdsAssumption DEF Upload, Goto, GiveUp, PassType, InProgress
<1>15. CASE Anchor
  BY <1>15, <1>p DEF Anchor, Goto, GiveUp, Finish, PassType, running, cloud
<1>16. CASE Switch
  BY <1>16, <1>p, <1>t DEF Switch, SwitchError, Goto, PassType, TaskType, InProgress
<1>17. CASE AwaitSwitch
  BY <1>17, <1>p DEF AwaitSwitch, SwitchDone, SwitchError, NoTask, InProgress, Goto, GiveUp,
     Finish, PassType, running, cloud
<1>18. CASE AwaitAdopted
  BY <1>18, <1>p DEF AwaitAdopted, SwitchDone, SwitchError, NoTask, InProgress, Goto, GiveUp,
     Finish, PassType, running, cloud
<1>19. CASE EnumerateNew
  BY <1>19, <1>p DEF EnumerateNew, AfterNewEnumerated, Verdict, Goto, GiveUp, Finish,
     PassType, running, cloud
<1>20. CASE EnumerateOld
  BY <1>20, <1>p DEF EnumerateOld, Verdict, Goto, GiveUp, Finish, PassType, running, cloud
<1>21. CASE Promote
  BY <1>21, <1>p DEF Promote, ChooseOrphan, Goto, GiveUp, Finish, PassType, running, cloud
<1>22. CASE Commit
  BY <1>22, <1>p DEF Commit, Goto, GiveUp, Finish, PassType, running, cloud
<1>23. CASE RecordFailure
  BY <1>23, <1>p DEF RecordFailure, Goto, GiveUp, Finish, PassType, running, cloud
<1>24. CASE TaskStep
  BY <1>24, <1>t DEF TaskStep, InProgress, TaskType, running
<1>25. CASE RefreshStep \/ ReapStep \/ CADecides \/ OperatorStep \/ ClockStep
  <2>1. UNCHANGED <<running, task>>
    BY <1>25 DEF RefreshStep, RefreshRead, RefreshLookup, RefreshWrite, ReapStep, ReapDelete,
         ReapForget, CADecides, OperatorStep, Bind, Unbind, Edit, ClockStep, OrderExpires,
         BackoffElapses, cloud
  <2> QED
    BY <2>1 DEF running, InProgress
<1>26. CASE Restart \/ Crash
  BY <1>26 DEF Restart, Crash, Stop, Finish, cloud, InProgress
<1>27. CASE UNCHANGED vars
  BY <1>27 DEF vars, InProgress
<1> QED
  BY <1>1, <1>2, <1>3, <1>4, <1>5, <1>6, <1>7, <1>8, <1>9, <1>10, <1>11, <1>12, <1>13,
     <1>14, <1>15, <1>16, <1>17, <1>18, <1>19, <1>20, <1>21, <1>22, <1>23, <1>24, <1>25, <1>26, <1>27
     DEF Next, PassStep, CloudStep

\* The initial state is well typed and no pass is under way.
LEMMA InitTyped == Init => TypeInv
<1> SUFFICES ASSUME Init PROVE InHand
  BY TypeInit DEF TypeInv
<1> QED
  BY DEF Init, InHand, SwitchPcs, EpiloguePcs, NoTask, InProgress

\* Whatever the constants, and with the pending-binding refresh or without it:
\* every store row, every id and every counter of a run is well typed.
THEOREM TypeCorrect == Spec => []TypeOK
<1>1. Init => TypeInv
  BY InitTyped
<1>2. TypeInv /\ [Next]_vars => TypeInv'
  BY TypeStep, HandStep DEF TypeInv
<1>3. TypeInv => TypeOK
  BY DEF TypeInv
<1> QED
  BY <1>1, <1>2, <1>3, PTL DEF Spec

-----------------------------------------------------------------------------
(* Safety *)

Carry == /\ pass'.st = pass.st /\ pass'.new = pass.new
         /\ pass'.out = pass.out /\ pass'.orphan = pass.orphan

\* Records of a known set of records have fields of the known sets.
LEMMA Fields ==
    ASSUME IInv
    PROVE  /\ pc \in Pcs /\ pass \in PassType /\ pass.st \in RowType /\ InHand
           /\ row \in RowType /\ order \in OrderType /\ mem \in MemType /\ task \in TaskType
BY DEF IInv, TypeInv, TypeOK, StoreType, CloudType, PassType

\* Certificates and counters are natural numbers, so newer is >.
LEMMA Nats ==
    ASSUME IInv
    PROVE  row.cert \in Nat /\ order.n \in Nat /\ placed \in Nat
BY Fields, OrdersAssumption DEF IInv, TypeInv, TypeOK, AcmeType, RowType, OrderType

\* The ids the store and the pass name are ids of uploaded copies, or NoId.
LEMMA CopyIds ==
    ASSUME IInv
    PROVE  /\ certOf = [id \in Ids |-> certOf[id]]
           /\ bound = [l \in Listeners |-> bound[l]]
           /\ \A l \in Listeners : bound[l] \in Ids \cup {NoId}
           /\ retired \subseteq Ids /\ deleted \subseteq Ids
           /\ row.dep \in Ids \cup {NoId} /\ order.dep \in Ids \cup {NoId}
           /\ pass.new \in Ids \cup {NoId} /\ pass.st.dep \in Ids \cup {NoId}
BY Fields DEF IInv, TypeInv, TypeOK, StoreType, CloudType, RowType, OrderType, PassType

\* A pass starts with a fresh copy of the row and nothing else in hand.
LEMMA BeginKeeps == ASSUME ~RefreshOn, IInv, Begin PROVE Rest'
<1> USE DEF Rest
<1>a. Rest
  BY DEF IInv
<1>f. /\ pc \in Pcs /\ pass \in PassType /\ pass.st \in RowType /\ InHand
      /\ row \in RowType /\ order \in OrderType /\ mem \in MemType /\ task \in TaskType
  BY Fields
<1>1. /\ pc = "idle" /\ ~row.wait /\ ~mem.wait
      /\ pc' = "lookup" /\ pass'.st = row /\ pass'.new = NoId
      /\ pass'.out = "none" /\ pass'.orphan = NoId
      /\ UNCHANGED <<row, order, retired, abandoned, placed, certOf, deleted, bound, served,
                    task, refresh, reaping, mem, hot>>
  BY <1>f DEF Begin, Blank, store, cloud, acme, running
<1>2. PassCopy'
  BY <1>1, <1>a DEF PassCopy
<1>3. OrderShape'
  BY <1>1, <1>a DEF OrderShape, NoOrderPcs, OrderPcs
<1>4. HandShape'
  BY <1>1, <1>a DEF HandShape, SwitchPcs, EpiloguePcs
<1>5. HandOver'
  BY <1>1, <1>a DEF HandOver
<1>6. ServedShape'
  BY <1>1, <1>a DEF ServedShape, EpiloguePcs
<1>7. BackoffShape'
  BY <1>1, <1>a DEF BackoffShape
<1>8. CopyShape' /\ ReclaimShape' /\ LiveNotReclaimed'
  BY <1>1, <1>a DEF CopyShape, ReclaimShape, LiveNotReclaimed
<1> QED
  BY <1>2, <1>3, <1>4, <1>5, <1>6, <1>7, <1>8

\* An unreadable row costs failure columns, never the certificate.
LEMMA BeginUnreadableKeeps == ASSUME ~RefreshOn, IInv, BeginUnreadable PROVE Rest'
<1> USE DEF Rest
<1>a. Rest
  BY DEF IInv
<1>f. /\ pc \in Pcs /\ pass \in PassType /\ pass.st \in RowType /\ InHand
      /\ row \in RowType /\ order \in OrderType /\ mem \in MemType /\ task \in TaskType
  BY Fields
<1>1. /\ pc = "idle" /\ hot' = TRUE
      /\ row'.cert = row.cert /\ row'.dep = row.dep /\ row'.conf = row.conf
      /\ row'.wait \/ mem'.wait
      /\ UNCHANGED <<order, retired, abandoned, placed, certOf, deleted, bound, served, task,
                    pc, pass, refresh, reaping>>
  BY <1>f DEF BeginUnreadable, FailureColumns, KeepDeadline, RowType, MemType, store, cloud,
     acme, running
<1>2. PassCopy'
  BY <1>1, <1>a DEF PassCopy
<1>3. OrderShape'
  BY <1>1, <1>a DEF OrderShape, NoOrderPcs, OrderPcs
<1>4. CopyShape'
  BY <1>1, <1>a DEF CopyShape
<1>5. ServedShape'
  BY <1>1, <1>a DEF ServedShape, EpiloguePcs
<1>6. BackoffShape'
  BY <1>1, <1>a DEF BackoffShape
<1>7. LiveNotReclaimed'
  BY <1>1, <1>a DEF LiveNotReclaimed
<1>8. HandShape' /\ HandOver' /\ ReclaimShape'
  BY <1>1, <1>a DEF HandShape, HandOver, ReclaimShape
<1> QED
  BY <1>2, <1>3, <1>4, <1>5, <1>6, <1>7, <1>8

\* Reading the order only chooses where the pass goes.
LEMMA ReadOrderKeeps == ASSUME ~RefreshOn, IInv, ReadOrder PROVE Rest'
<1> USE DEF Rest
<1>a. Rest
  BY DEF IInv
<1>f. /\ pc \in Pcs /\ pass \in PassType /\ pass.st \in RowType /\ InHand
      /\ row \in RowType /\ order \in OrderType /\ mem \in MemType /\ task \in TaskType
  BY Fields
<1>1. /\ pc = "lookup" /\ Carry
      /\ pc' \in {"fail", "decide", "discard", "advance"}
      /\ pc' = "decide" => order.n = 0
      /\ pc' \in {"discard", "advance"} => order.n # 0
      /\ UNCHANGED <<row, order, retired, abandoned, placed, certOf, deleted, bound, served,
                    task, refresh, reaping, mem, hot>>
  BY <1>f DEF ReadOrder, Goto, GiveUp, PassType, Carry, store, cloud, acme, running
<1>2. PassCopy'
  BY <1>1, <1>a DEF PassCopy, Carry
<1>3. OrderShape'
  BY <1>1, <1>a DEF OrderShape, NoOrderPcs, OrderPcs, Carry
<1>4. HandShape'
  BY <1>1, <1>a DEF HandShape, SwitchPcs, EpiloguePcs, Carry
<1>5. HandOver'
  BY <1>1, <1>a DEF HandOver, Carry
<1>6. ServedShape'
  BY <1>1, <1>a DEF ServedShape, EpiloguePcs, Carry
<1>7. BackoffShape'
  BY <1>1, <1>a DEF BackoffShape, Carry
<1>8. CopyShape' /\ ReclaimShape' /\ LiveNotReclaimed'
  BY <1>1, <1>a DEF CopyShape, ReclaimShape, LiveNotReclaimed
<1> QED
  BY <1>2, <1>3, <1>4, <1>5, <1>6, <1>7, <1>8

\* The orphan chosen for the reclaim list is the order's copy and not the row's.
LEMMA DiscardKeeps == ASSUME ~RefreshOn, IInv, Discard PROVE Rest'
<1> USE DEF Rest
<1>a. Rest
  BY DEF IInv
<1>f. /\ pc \in Pcs /\ pass \in PassType /\ pass.st \in RowType /\ InHand
      /\ row \in RowType /\ order \in OrderType /\ mem \in MemType /\ task \in TaskType
  BY Fields
<1>1. /\ pc = "discard" /\ pc' = "drop"
      /\ pass'.st = pass.st /\ pass'.new = pass.new /\ pass'.out = pass.out
      /\ \/ /\ pass'.orphan = IF order.dep = row.dep THEN NoId ELSE order.dep
            /\ UNCHANGED abandoned
         \/ /\ pass'.orphan = pass.orphan
            /\ abandoned' = abandoned \cup ({order.dep} \ {NoId, row.dep})
         \/ pass'.orphan = order.dep /\ UNCHANGED abandoned
      /\ UNCHANGED <<row, order, retired, placed, certOf, deleted, bound, served, task,
                    refresh, reaping, mem, hot>>
  BY <1>f DEF Discard, ChooseOrphan, Orphan, Goto, PassType, store, cloud, acme, running
<1>2. PassCopy'
  BY <1>1, <1>a DEF PassCopy
<1>3. OrderShape'
  BY <1>1, <1>a DEF OrderShape, NoOrderPcs, OrderPcs
<1>4. HandShape'
  BY <1>1, <1>a DEF HandShape, SwitchPcs, EpiloguePcs
<1>5. HandOver'
  <2>1. order.dep # NoId => order.dep # row.dep
    BY <1>1, <1>a, Nats DEF CopyShape, OrderShape, OrderPcs
  <2>2. order'.dep \in {NoId, pass'.orphan} \cup abandoned'
    BY <1>1, <2>1
  <2> QED
    BY <2>2 DEF HandOver
<1>6. ServedShape'
  BY <1>1, <1>a DEF ServedShape, EpiloguePcs
<1>7. BackoffShape'
  BY <1>1, <1>a DEF BackoffShape
<1>8. CopyShape' /\ ReclaimShape' /\ LiveNotReclaimed'
  BY <1>1, <1>a DEF CopyShape, ReclaimShape, LiveNotReclaimed
<1> QED
  BY <1>2, <1>3, <1>4, <1>5, <1>6, <1>7, <1>8

\* Dropping the order hands its copy to the reclaim list, or fails whole.
LEMMA DropOrderKeeps == ASSUME ~RefreshOn, IInv, DropOrder PROVE Rest'
<1> USE DEF Rest
<1>a. Rest
  BY DEF IInv
<1>f. /\ pc \in Pcs /\ pass \in PassType /\ pass.st \in RowType /\ InHand
      /\ row \in RowType /\ order \in OrderType /\ mem \in MemType /\ task \in TaskType
  BY Fields
<1>1. /\ pc = "drop" /\ mem'.wait = mem.wait
      /\ \/ pc' = "fail" /\ Carry /\ UNCHANGED <<order, retired>>
         \/ /\ order' = NoOrder /\ retired' = retired \cup ({pass.orphan} \ {NoId})
            /\ pass'.orphan = NoId
            /\ \/ pc' = "idle" /\ pass'.out = "none" /\ pass'.new = NoId
               \/ /\ pc' \in {"decide", "fail"}
                  /\ pass'.st = pass.st /\ pass'.new = pass.new /\ pass'.out = pass.out
      /\ UNCHANGED <<row, abandoned, placed, certOf, deleted, bound, served, task, refresh,
                    reaping, hot>>
  <2>1. CASE DropFails /\ UNCHANGED mem
    BY <1>f, <2>1 DEF DropOrder, DropFails, GiveUp, Goto, Carry, store, cloud, acme
  <2>2. CASE OrderDropped /\ pass.then = "idle"
    BY <1>f, <2>2 DEF DropOrder, OrderDropped, AddRetired, Finish, Blank, MemType, cloud, acme
  <2>3. CASE OrderDropped /\ pass.then # "idle"
    <3>1. pass.then \in {"decide", "fail"}
      BY <1>f, <2>3 DEF DropOrder, InHand, PassType
    <3> QED
      BY <1>f, <2>3, <3>1 DEF DropOrder, OrderDropped, AddRetired, PassType, MemType, cloud, acme
  <2> QED
    BY <2>1, <2>2, <2>3 DEF DropOrder, DropFails
<1>2. PassCopy'
  BY <1>1, <1>a DEF PassCopy, Carry
<1>3. OrderShape'
  BY <1>1, <1>a, Nats DEF OrderShape, NoOrderPcs, OrderPcs, NoOrder, Carry
<1>4. CopyShape'
  BY <1>1, <1>a, Nats DEF CopyShape, NoOrder, Carry
<1>5. HandShape'
  BY <1>1, <1>a DEF HandShape, SwitchPcs, EpiloguePcs, NoOrder, Carry
<1>6. HandOver'
  BY <1>1, <1>a DEF HandOver, NoOrder, Carry
<1>7. ReclaimShape'
  <2>1. pass.orphan # NoId => certOf[pass.orphan] # 0
    BY <1>1, <1>a DEF HandShape, CopyShape, OrderShape, OrderPcs
  <2> QED
    BY <1>1, <1>a, <2>1 DEF ReclaimShape
<1>8. ServedShape'
  BY <1>1, <1>a DEF ServedShape, EpiloguePcs, Carry
<1>9. BackoffShape'
  BY <1>1, <1>a DEF BackoffShape, Carry
<1>10. LiveNotReclaimed'
  <2>1. row.dep # NoId => row.dep # pass.orphan
    BY <1>1, <1>a, Nats DEF HandShape, CopyShape, OrderShape, OrderPcs
  <2> QED
    BY <1>1, <1>a, <2>1 DEF LiveNotReclaimed, NoOrder
<1> QED
  BY <1>2, <1>3, <1>4, <1>5, <1>6, <1>7, <1>8, <1>9, <1>10

\* Confirming writes the pass's copy of the row, which is still the row's.
LEMMA ConfirmBindingKeeps == ASSUME ~RefreshOn, IInv, ConfirmBinding PROVE Rest'
<1> USE DEF Rest
<1>a. Rest
  BY DEF IInv
<1>f. /\ pc \in Pcs /\ pass \in PassType /\ pass.st \in RowType /\ InHand
      /\ row \in RowType /\ order \in OrderType /\ mem \in MemType /\ task \in TaskType
  BY Fields
<1>1. /\ pc = "decide"
      /\ pass'.st.cert = pass.st.cert /\ pass'.st.dep = pass.st.dep
      /\ pass'.st.wait = pass.st.wait /\ pass'.st.conf = TRUE
      /\ pass'.new = pass.new /\ pass'.out = pass.out /\ pass'.orphan = pass.orphan
      /\ pass.st.dep # NoId /\ \E l \in Listeners : bound[l] = pass.st.dep
      /\ row' = row \/ row' = pass'.st
      /\ UNCHANGED <<order, retired, abandoned, placed, certOf, deleted, bound, served, task,
                    pc, refresh, reaping, mem, hot>>
  BY <1>f DEF ConfirmBinding, BoundTo, PassType, RowType, store, cloud, acme, running
<1>2. PassCopy'
  BY <1>1, <1>a DEF PassCopy
<1>3. OrderShape'
  BY <1>1, <1>a DEF PassCopy, OrderShape, NoOrderPcs, OrderPcs
<1>4. CopyShape'
  BY <1>1, <1>a DEF PassCopy, CopyShape
<1>5. HandShape'
  BY <1>1, <1>a DEF HandShape, SwitchPcs, EpiloguePcs
<1>6. HandOver'
  BY <1>1, <1>a DEF HandOver
<1>7. ServedShape'
  BY <1>1, <1>a DEF ServedShape, EpiloguePcs
<1>8. BackoffShape'
  BY <1>1, <1>a DEF PassCopy, BackoffShape
<1>9. LiveNotReclaimed'
  BY <1>1, <1>a DEF PassCopy, LiveNotReclaimed
<1>10. ReclaimShape'
  BY <1>1, <1>a DEF ReclaimShape
<1> QED
  BY <1>2, <1>3, <1>4, <1>5, <1>6, <1>7, <1>8, <1>9, <1>10

\* Deciding changes nothing but the next step.
LEMMA DecideKeeps == ASSUME ~RefreshOn, IInv, Decide PROVE Rest'
<1> USE DEF Rest
<1>a. Rest
  BY DEF IInv
<1>f. /\ pc \in Pcs /\ pass \in PassType /\ pass.st \in RowType /\ InHand
      /\ row \in RowType /\ order \in OrderType /\ mem \in MemType /\ task \in TaskType
  BY Fields
<1>1. /\ pc = "decide"
      /\ \/ pc' = "issue" /\ UNCHANGED pass
         \/ pc' = "idle" /\ pass'.out = "none" /\ pass'.orphan = NoId /\ pass'.new = NoId
      /\ UNCHANGED <<row, order, retired, abandoned, placed, certOf, deleted, bound, served,
                    task, refresh, reaping, mem, hot>>
  BY <1>f DEF Decide, Goto, Finish, Blank, store, cloud, acme, running
<1>2. PassCopy'
  BY <1>1, <1>a DEF PassCopy
<1>3. OrderShape'
  BY <1>1, <1>a DEF OrderShape, NoOrderPcs, OrderPcs
<1>4. HandShape'
  BY <1>1, <1>a DEF HandShape, SwitchPcs, EpiloguePcs
<1>5. HandOver'
  BY <1>1, <1>a DEF HandOver
<1>6. ServedShape'
  BY <1>1, <1>a DEF ServedShape, EpiloguePcs
<1>7. BackoffShape'
  BY <1>1, <1>a DEF BackoffShape
<1>8. CopyShape' /\ ReclaimShape' /\ LiveNotReclaimed'
  BY <1>1, <1>a DEF CopyShape, ReclaimShape, LiveNotReclaimed
<1> QED
  BY <1>2, <1>3, <1>4, <1>5, <1>6, <1>7, <1>8

\* A new order is newer than every certificate uploaded so far.
LEMMA IssueKeeps == ASSUME ~RefreshOn, IInv, Issue PROVE Rest'
<1> USE DEF Rest
<1>a. Rest
  BY DEF IInv
<1>f. /\ pc \in Pcs /\ pass \in PassType /\ pass.st \in RowType /\ InHand
      /\ row \in RowType /\ order \in OrderType /\ mem \in MemType /\ task \in TaskType
  BY Fields
<1>1. /\ pc = "issue"
      /\ \/ pc' = "fail" /\ UNCHANGED placed
         \/ pc' = "record" /\ placed' = placed + 1
      /\ UNCHANGED <<row, order, retired, abandoned, certOf, deleted, bound, served, task,
                    pass, refresh, reaping, mem, hot>>
  BY <1>f DEF Issue, Goto, GiveUp, store, cloud, acme, running
<1>2. PassCopy'
  BY <1>1, <1>a DEF PassCopy
<1>3. OrderShape'
  BY <1>1, <1>a, Nats DEF OrderShape, NoOrderPcs, OrderPcs
<1>4. HandShape'
  BY <1>1, <1>a DEF HandShape, SwitchPcs, EpiloguePcs
<1>5. HandOver'
  BY <1>1, <1>a DEF HandOver
<1>6. ServedShape'
  BY <1>1, <1>a DEF ServedShape, EpiloguePcs
<1>7. BackoffShape'
  BY <1>1, <1>a DEF BackoffShape
<1>8. CopyShape' /\ ReclaimShape' /\ LiveNotReclaimed'
  BY <1>1, <1>a DEF CopyShape, ReclaimShape, LiveNotReclaimed
<1> QED
  BY <1>2, <1>3, <1>4, <1>5, <1>6, <1>7, <1>8

\* The recorded order is the last one placed and has no copy yet.
LEMMA RecordKeeps == ASSUME ~RefreshOn, IInv, Record PROVE Rest'
<1> USE DEF Rest
<1>a. Rest
  BY DEF IInv
<1>f. /\ pc \in Pcs /\ pass \in PassType /\ pass.st \in RowType /\ InHand
      /\ row \in RowType /\ order \in OrderType /\ mem \in MemType /\ task \in TaskType
  BY Fields
<1>1. /\ pc = "record"
      /\ \/ pc' = "fail" /\ UNCHANGED order
         \/ pc' = "advance" /\ order'.n = placed /\ order'.dep = NoId
      /\ UNCHANGED <<row, retired, abandoned, placed, certOf, deleted, bound, served, task,
                    pass, refresh, reaping, mem, hot>>
  BY <1>f DEF Record, Goto, GiveUp, NoOrder, store, cloud, acme, running
<1>2. PassCopy'
  BY <1>1, <1>a DEF PassCopy
<1>3. OrderShape'
  BY <1>1, <1>a, Nats DEF OrderShape, NoOrderPcs, OrderPcs
<1>4. CopyShape'
  BY <1>1, <1>a, Nats DEF CopyShape
<1>5. HandShape'
  BY <1>1, <1>a DEF HandShape, SwitchPcs, EpiloguePcs
<1>6. HandOver'
  BY <1>1, <1>a DEF HandOver
<1>7. ServedShape'
  BY <1>1, <1>a DEF ServedShape, EpiloguePcs
<1>8. BackoffShape'
  BY <1>1, <1>a DEF BackoffShape
<1>9. LiveNotReclaimed'
  BY <1>1, <1>a DEF LiveNotReclaimed
<1>10. ReclaimShape'
  BY <1>1, <1>a DEF ReclaimShape
<1> QED
  BY <1>2, <1>3, <1>4, <1>5, <1>6, <1>7, <1>8, <1>9, <1>10

\* A failed fetch counts, or sends the order to be discarded.
LEMMA FetchFailsKeeps == ASSUME ~RefreshOn, IInv, FetchFails PROVE Rest'
<1> USE DEF Rest
<1>a. Rest
  BY DEF IInv
<1>f. /\ pc \in Pcs /\ pass \in PassType /\ pass.st \in RowType /\ InHand
      /\ row \in RowType /\ order \in OrderType /\ mem \in MemType /\ task \in TaskType
  BY Fields
<1>1. /\ pc = "advance" /\ Carry /\ mem'.wait = mem.wait
      /\ pc' \in {"fail", "discard"}
      /\ UNCHANGED <<row, order, retired, abandoned, placed, certOf, deleted, bound, served,
                    task, refresh, reaping, hot>>
  BY <1>f DEF FetchFails, Goto, GiveUp, PassType, MemType, Carry, store, cloud, acme, running
<1>2. PassCopy'
  BY <1>1, <1>a DEF PassCopy, Carry
<1>3. OrderShape'
  BY <1>1, <1>a DEF OrderShape, NoOrderPcs, OrderPcs, Carry
<1>4. HandShape'
  BY <1>1, <1>a DEF HandShape, SwitchPcs, EpiloguePcs, Carry
<1>5. HandOver'
  BY <1>1, <1>a DEF HandOver, Carry
<1>6. ServedShape'
  BY <1>1, <1>a DEF ServedShape, EpiloguePcs, Carry
<1>7. BackoffShape'
  BY <1>1, <1>a DEF BackoffShape, Carry
<1>8. CopyShape' /\ ReclaimShape' /\ LiveNotReclaimed'
  BY <1>1, <1>a DEF CopyShape, ReclaimShape, LiveNotReclaimed
<1> QED
  BY <1>2, <1>3, <1>4, <1>5, <1>6, <1>7, <1>8

\* Fetching the order only chooses where the pass goes.
LEMMA AdvanceKeeps == ASSUME ~RefreshOn, IInv, Advance PROVE Rest'
<1> USE DEF Rest
<1>a. Rest
  BY DEF IInv
<1>f. /\ pc \in Pcs /\ pass \in PassType /\ pass.st \in RowType /\ InHand
      /\ row \in RowType /\ order \in OrderType /\ mem \in MemType /\ task \in TaskType
  BY Fields
<1>1. /\ pc = "advance" /\ Carry /\ mem'.wait = mem.wait
      /\ pc' \in {"fail", "discard", "download", "solve"}
      /\ UNCHANGED <<row, order, retired, abandoned, placed, certOf, deleted, bound, served,
                    task, refresh, reaping, hot>>
  BY <1>f DEF Advance, Goto, GiveUp, PassType, MemType, Carry, store, cloud, acme, running
<1>2. PassCopy'
  BY <1>1, <1>a DEF PassCopy, Carry
<1>3. OrderShape'
  BY <1>1, <1>a DEF OrderShape, NoOrderPcs, OrderPcs, Carry
<1>4. HandShape'
  BY <1>1, <1>a DEF HandShape, SwitchPcs, EpiloguePcs, Carry
<1>5. HandOver'
  BY <1>1, <1>a DEF HandOver, Carry
<1>6. ServedShape'
  BY <1>1, <1>a DEF ServedShape, EpiloguePcs, Carry
<1>7. BackoffShape'
  BY <1>1, <1>a DEF BackoffShape, Carry
<1>8. CopyShape' /\ ReclaimShape' /\ LiveNotReclaimed'
  BY <1>1, <1>a DEF CopyShape, ReclaimShape, LiveNotReclaimed
<1> QED
  BY <1>2, <1>3, <1>4, <1>5, <1>6, <1>7, <1>8

\* Solving moves the order at the CA and nothing of ours.
LEMMA SolveKeeps == ASSUME ~RefreshOn, IInv, Solve PROVE Rest'
<1> USE DEF Rest
<1>a. Rest
  BY DEF IInv
<1>f. /\ pc \in Pcs /\ pass \in PassType /\ pass.st \in RowType /\ InHand
      /\ row \in RowType /\ order \in OrderType /\ mem \in MemType /\ task \in TaskType
  BY Fields
<1>1. /\ pc = "solve" /\ pc' \in {"fail", "solve", "download"}
      /\ UNCHANGED <<row, order, retired, abandoned, placed, certOf, deleted, bound, served,
                    task, pass, refresh, reaping, mem, hot>>
  BY <1>f DEF Solve, Goto, GiveUp, store, cloud, acme, running
<1>2. PassCopy'
  BY <1>1, <1>a DEF PassCopy
<1>3. OrderShape'
  BY <1>1, <1>a DEF OrderShape, NoOrderPcs, OrderPcs
<1>4. HandShape'
  BY <1>1, <1>a DEF HandShape, SwitchPcs, EpiloguePcs
<1>5. HandOver'
  BY <1>1, <1>a DEF HandOver
<1>6. ServedShape'
  BY <1>1, <1>a DEF ServedShape, EpiloguePcs
<1>7. BackoffShape'
  BY <1>1, <1>a DEF BackoffShape
<1>8. CopyShape' /\ ReclaimShape' /\ LiveNotReclaimed'
  BY <1>1, <1>a DEF CopyShape, ReclaimShape, LiveNotReclaimed
<1> QED
  BY <1>2, <1>3, <1>4, <1>5, <1>6, <1>7, <1>8

\* Past the gates the pass deploys a certificate newer than the row's.
LEMMA DownloadKeeps == ASSUME ~RefreshOn, IInv, Download PROVE Rest'
<1> USE DEF Rest
<1>a. Rest
  BY DEF IInv
<1>f. /\ pc \in Pcs /\ pass \in PassType /\ pass.st \in RowType /\ InHand
      /\ row \in RowType /\ order \in OrderType /\ mem \in MemType /\ task \in TaskType
  BY Fields
<1>1. /\ pc = "download"
      /\ pass'.st = pass.st /\ pass'.orphan = pass.orphan
      /\ \/ pc' \in {"fail", "discard"} /\ Carry
         \/ pc' = "promote" /\ pass'.out = "off" /\ pass'.new = pass.new
         \/ pc' = "upload" /\ order.dep = NoId /\ Carry
         \/ pc' = "switch" /\ pass'.new = order.dep /\ pass'.out = pass.out
      /\ UNCHANGED <<row, order, retired, abandoned, placed, certOf, deleted, bound, served,
                    task, refresh, reaping, mem, hot>>
  BY <1>f DEF Download, Goto, GiveUp, PassType, Carry, store, cloud, acme, running
<1>2. PassCopy'
  BY <1>1, <1>a DEF PassCopy, Carry
<1>3. OrderShape'
  BY <1>1, <1>a DEF OrderShape, NoOrderPcs, OrderPcs, Carry
<1>4. HandShape'
  BY <1>1, <1>a DEF HandShape, SwitchPcs, EpiloguePcs, Carry
<1>5. HandOver'
  BY <1>1, <1>a DEF HandOver, Carry
<1>6. ServedShape'
  BY <1>1, <1>a DEF ServedShape, EpiloguePcs, Carry
<1>7. BackoffShape'
  BY <1>1, <1>a DEF BackoffShape, Carry
<1>8. CopyShape' /\ ReclaimShape' /\ LiveNotReclaimed'
  BY <1>1, <1>a DEF CopyShape, ReclaimShape, LiveNotReclaimed
<1> QED
  BY <1>2, <1>3, <1>4, <1>5, <1>6, <1>7, <1>8

\* The uploaded copy is new: no row, list or listener names it.
LEMMA UploadKeeps == ASSUME ~RefreshOn, IInv, Upload PROVE Rest'
<1> USE DEF Rest
<1>a. Rest
  BY DEF IInv
<1>f. /\ pc \in Pcs /\ pass \in PassType /\ pass.st \in RowType /\ InHand
      /\ row \in RowType /\ order \in OrderType /\ mem \in MemType /\ task \in TaskType
  BY Fields
<1>1. /\ pc = "upload"
      /\ pass'.st = pass.st /\ pass'.orphan = pass.orphan /\ pass'.out = pass.out
      /\ \/ pc' = "fail" /\ UNCHANGED certOf
         \/ /\ pc' = "anchor" /\ pass'.new \in Ids /\ certOf[pass'.new] = 0
            /\ certOf' = [certOf EXCEPT ![pass'.new] = order.n]
      /\ UNCHANGED <<row, order, retired, abandoned, placed, deleted, bound, served, task,
                    refresh, reaping, mem, hot>>
  BY <1>f DEF Upload, Goto, GiveUp, PassType, store, cloud, acme, running
<1>2. PassCopy'
  BY <1>1, <1>a DEF PassCopy
<1>3. OrderShape'
  BY <1>1, <1>a, Nats DEF OrderShape, NoOrderPcs, OrderPcs
<1>4. CopyShape'
  BY <1>1, <1>a, CopyIds DEF CopyShape, HandShape
<1>5. HandShape'
  <2>1. pc' = "anchor" => certOf'[pass'.new] = order.n
    BY <1>1, CopyIds
  <2>2. pc' = "anchor" => pass'.new \notin retired \cup deleted
    BY <1>1, <1>a DEF ReclaimShape
  <2> QED
    BY <1>1, <1>a, <2>1, <2>2 DEF HandShape, SwitchPcs, EpiloguePcs
<1>6. HandOver'
  BY <1>1, <1>a DEF HandOver
<1>7. ReclaimShape'
  <2>1. \A id \in Ids : certOf[id] # 0 => certOf'[id] # 0
    BY <1>1, <1>a, CopyIds DEF OrderShape, OrderPcs
  <2> QED
    BY <1>1, <1>a, CopyIds, <2>1 DEF ReclaimShape
<1>8. ServedShape'
  BY <1>1, <1>a DEF ServedShape, EpiloguePcs
<1>9. BackoffShape'
  BY <1>1, <1>a DEF BackoffShape
<1>10. LiveNotReclaimed'
  BY <1>1, <1>a DEF LiveNotReclaimed
<1> QED
  BY <1>2, <1>3, <1>4, <1>5, <1>6, <1>7, <1>8, <1>9, <1>10

\* The uploaded copy becomes the order's, or goes on the reclaim list.
LEMMA AnchorKeeps == ASSUME ~RefreshOn, IInv, Anchor PROVE Rest'
<1> USE DEF Rest
<1>a. Rest
  BY DEF IInv
<1>f. /\ pc \in Pcs /\ pass \in PassType /\ pass.st \in RowType /\ InHand
      /\ row \in RowType /\ order \in OrderType /\ mem \in MemType /\ task \in TaskType
  BY Fields
<1>1. /\ pc = "anchor"
      /\ \/ /\ pc' = "switch" /\ order'.n = order.n /\ order'.dep = pass.new
            /\ UNCHANGED retired
         \/ pc' = "fail" /\ UNCHANGED order /\ retired' \in {retired, retired \cup {pass.new}}
      /\ UNCHANGED <<row, placed, certOf, deleted, bound, served, task, pass, refresh,
                    reaping, mem, hot>>
  BY <1>f DEF Anchor, Goto, GiveUp, AddRetired, OrderType, store, cloud, acme, running
<1>2. PassCopy'
  BY <1>1, <1>a DEF PassCopy
<1>3. OrderShape'
  BY <1>1, <1>a, Nats DEF OrderShape, NoOrderPcs, OrderPcs
<1>4. CopyShape'
  BY <1>1, <1>a DEF CopyShape, HandShape
<1>5. HandShape'
  BY <1>1, <1>a DEF HandShape, SwitchPcs, EpiloguePcs
<1>6. HandOver'
  BY <1>1, <1>a DEF HandOver
<1>7. ReclaimShape'
  BY <1>1, <1>a DEF ReclaimShape, HandShape, OrderShape, OrderPcs
<1>8. ServedShape'
  BY <1>1, <1>a DEF ServedShape, EpiloguePcs
<1>9. BackoffShape'
  BY <1>1, <1>a DEF BackoffShape
<1>10. LiveNotReclaimed'
  <2>1. row.dep # NoId => row.dep # pass.new
    BY <1>1, <1>a, Nats DEF HandShape, CopyShape, OrderShape, OrderPcs
  <2> QED
    BY <1>1, <1>a, <2>1 DEF LiveNotReclaimed, HandShape
<1> QED
  BY <1>2, <1>3, <1>4, <1>5, <1>6, <1>7, <1>8, <1>9, <1>10

\* Starting a switch leaves store and copies alone.
LEMMA SwitchKeeps == ASSUME ~RefreshOn, IInv, Switch PROVE Rest'
<1> USE DEF Rest
<1>a. Rest
  BY DEF IInv
<1>f. /\ pc \in Pcs /\ pass \in PassType /\ pass.st \in RowType /\ InHand
      /\ row \in RowType /\ order \in OrderType /\ mem \in MemType /\ task \in TaskType
  BY Fields
<1>1. /\ pc = "switch"
      /\ pass'.st = pass.st /\ pass'.new = pass.new /\ pass'.orphan = pass.orphan
      /\ \/ /\ pc' = "promote" /\ pass'.out = "first" /\ pass.st.dep = NoId
            /\ UNCHANGED task
         \/ pc' \in {"enumNew", "adopt"} /\ pass'.out = pass.out /\ UNCHANGED task
         \/ pc' = "wait" /\ pass'.out = pass.out /\ task'.to = pass.new /\ task'.todo # {}
      /\ UNCHANGED <<row, order, retired, abandoned, placed, certOf, deleted, bound, served,
                    refresh, reaping, mem, hot>>
  BY <1>f DEF Switch, SwitchError, Goto, PassType, store, cloud, acme, running
<1>2. PassCopy'
  BY <1>1, <1>a DEF PassCopy
<1>3. OrderShape'
  BY <1>1, <1>a DEF OrderShape, NoOrderPcs, OrderPcs
<1>4. HandShape'
  BY <1>1, <1>f, <1>a DEF InHand, HandShape, SwitchPcs, EpiloguePcs
<1>5. HandOver'
  BY <1>1, <1>a DEF HandOver
<1>6. ServedShape'
  BY <1>1, <1>a DEF ServedShape, EpiloguePcs
<1>7. BackoffShape'
  BY <1>1, <1>a DEF BackoffShape
<1>8. CopyShape' /\ ReclaimShape' /\ LiveNotReclaimed'
  BY <1>1, <1>a DEF CopyShape, ReclaimShape, LiveNotReclaimed
<1> QED
  BY <1>2, <1>3, <1>4, <1>5, <1>6, <1>7, <1>8

\* A successful switch means the new copy has served a listener.
LEMMA AwaitSwitchKeeps == ASSUME ~RefreshOn, IInv, AwaitSwitch PROVE Rest'
<1> USE DEF Rest
<1>a. Rest
  BY DEF IInv
<1>f. /\ pc \in Pcs /\ pass \in PassType /\ pass.st \in RowType /\ InHand
      /\ row \in RowType /\ order \in OrderType /\ mem \in MemType /\ task \in TaskType
  BY Fields
<1>1. /\ pc = "wait" /\ task' \in {task, NoTask}
      /\ pass'.st = pass.st /\ pass'.new = pass.new /\ pass'.orphan = pass.orphan
      /\ \/ pc' = "enumNew" /\ pass'.out = pass.out
         \/ pc' = "promote" /\ pass'.out = "rebound" /\ task.todo = {} /\ ~task.failed
      /\ UNCHANGED <<row, order, retired, abandoned, placed, certOf, deleted, bound, served,
                    refresh, reaping, mem, hot>>
  BY <1>f DEF AwaitSwitch, SwitchDone, SwitchError, TaskSucceeded, InProgress, PassType,
     store, cloud, acme, running
<1>2. PassCopy'
  BY <1>1, <1>a DEF PassCopy
<1>3. OrderShape'
  BY <1>1, <1>a DEF OrderShape, NoOrderPcs, OrderPcs
<1>4. HandShape'
  BY <1>1, <1>f, <1>a DEF InHand, HandShape, SwitchPcs, EpiloguePcs
<1>5. HandOver'
  BY <1>1, <1>a DEF HandOver
<1>6. ServedShape'
  <2>1. pc' = "promote" => pass.new \in served
    BY <1>1, <1>f, <1>a DEF InHand, SwitchPcs, ServedShape
  <2> QED
    BY <1>1, <1>a, <2>1 DEF ServedShape, HandShape, SwitchPcs, EpiloguePcs, NoTask
<1>7. BackoffShape'
  BY <1>1, <1>a DEF BackoffShape
<1>8. CopyShape' /\ ReclaimShape' /\ LiveNotReclaimed'
  BY <1>1, <1>a DEF CopyShape, ReclaimShape, LiveNotReclaimed
<1> QED
  BY <1>2, <1>3, <1>4, <1>5, <1>6, <1>7, <1>8

\* An adopted task counts only when the new copy is bound.
LEMMA AwaitAdoptedKeeps == ASSUME ~RefreshOn, IInv, AwaitAdopted PROVE Rest'
<1> USE DEF Rest
<1>a. Rest
  BY DEF IInv
<1>f. /\ pc \in Pcs /\ pass \in PassType /\ pass.st \in RowType /\ InHand
      /\ row \in RowType /\ order \in OrderType /\ mem \in MemType /\ task \in TaskType
  BY Fields
<1>1. /\ pc = "adopt" /\ task' \in {task, NoTask}
      /\ pass'.st = pass.st /\ pass'.new = pass.new /\ pass'.orphan = pass.orphan
      /\ \/ pc' = "enumNew" /\ pass'.out = pass.out
         \/ /\ pc' = "promote" /\ pass'.out = "rebound"
            /\ \E l \in Listeners : bound[l] = pass.new
      /\ UNCHANGED <<row, order, retired, abandoned, placed, certOf, deleted, bound, served,
                    refresh, reaping, mem, hot>>
  BY <1>f DEF AwaitAdopted, SwitchDone, SwitchError, BoundTo, PassType, store, cloud, acme,
     running
<1>2. PassCopy'
  BY <1>1, <1>a DEF PassCopy
<1>3. OrderShape'
  BY <1>1, <1>a DEF OrderShape, NoOrderPcs, OrderPcs
<1>4. HandShape'
  BY <1>1, <1>f, <1>a DEF InHand, HandShape, SwitchPcs, EpiloguePcs
<1>5. HandOver'
  BY <1>1, <1>a DEF HandOver
<1>6. ServedShape'
  <2>1. pass'.out = "rebound" => pass.new \in served
    BY <1>1, <1>f, <1>a DEF InHand, SwitchPcs, EpiloguePcs, HandShape, ServedShape
  <2> QED
    BY <1>1, <1>a, <2>1 DEF ServedShape, EpiloguePcs, NoTask
<1>7. BackoffShape'
  BY <1>1, <1>a DEF BackoffShape
<1>8. CopyShape' /\ ReclaimShape' /\ LiveNotReclaimed'
  BY <1>1, <1>a DEF CopyShape, ReclaimShape, LiveNotReclaimed
<1> QED
  BY <1>2, <1>3, <1>4, <1>5, <1>6, <1>7, <1>8

\* A verdict of rebound is only carried on when the new copy is bound.
LEMMA EnumerateNewKeeps == ASSUME ~RefreshOn, IInv, EnumerateNew PROVE Rest'
<1> USE DEF Rest
<1>a. Rest
  BY DEF IInv
<1>f. /\ pc \in Pcs /\ pass \in PassType /\ pass.st \in RowType /\ InHand
      /\ row \in RowType /\ order \in OrderType /\ mem \in MemType /\ task \in TaskType
  BY Fields
<1>1. /\ pc = "enumNew"
      /\ pass'.st = pass.st /\ pass'.new = pass.new /\ pass'.orphan = pass.orphan
      /\ \/ pc' = "fail"
         \/ pc' = "promote" /\ pass'.out = "unverified"
         \/ pc' = "enumOld" /\ pass'.out = "nothing"
         \/ /\ pc' = "enumOld" /\ pass'.out = "rebound"
            /\ \E l \in Listeners : bound[l] = pass.new
      /\ UNCHANGED <<row, order, retired, abandoned, placed, certOf, deleted, bound, served,
                    task, refresh, reaping, mem, hot>>
  BY <1>f DEF EnumerateNew, AfterNewEnumerated, Verdict, GiveUp, Goto, BoundTo, PassType,
     store, cloud, acme, running
<1>2. PassCopy'
  BY <1>1, <1>a DEF PassCopy
<1>3. OrderShape'
  BY <1>1, <1>a DEF OrderShape, NoOrderPcs, OrderPcs
<1>4. HandShape'
  BY <1>1, <1>f, <1>a DEF InHand, HandShape, SwitchPcs, EpiloguePcs
<1>5. HandOver'
  BY <1>1, <1>a DEF HandOver
<1>6. ServedShape'
  <2>1. pc' = "enumOld" /\ pass'.out = "rebound" => pass.new \in served
    BY <1>1, <1>f, <1>a DEF InHand, SwitchPcs, EpiloguePcs, HandShape, ServedShape
  <2> QED
    BY <1>1, <1>a, <2>1 DEF ServedShape, EpiloguePcs
<1>7. BackoffShape'
  BY <1>1, <1>a DEF BackoffShape
<1>8. CopyShape' /\ ReclaimShape' /\ LiveNotReclaimed'
  BY <1>1, <1>a DEF CopyShape, ReclaimShape, LiveNotReclaimed
<1> QED
  BY <1>2, <1>3, <1>4, <1>5, <1>6, <1>7, <1>8

\* The second enumeration settles the verdict and changes nothing else.
LEMMA EnumerateOldKeeps == ASSUME ~RefreshOn, IInv, EnumerateOld PROVE Rest'
<1> USE DEF Rest
<1>a. Rest
  BY DEF IInv
<1>f. /\ pc \in Pcs /\ pass \in PassType /\ pass.st \in RowType /\ InHand
      /\ row \in RowType /\ order \in OrderType /\ mem \in MemType /\ task \in TaskType
  BY Fields
<1>1. /\ pc = "enumOld"
      /\ pass'.st = pass.st /\ pass'.new = pass.new /\ pass'.orphan = pass.orphan
      /\ \/ pc' = "fail"
         \/ pc' = "promote" /\ pass'.out \in {pass.out, "unverified"}
      /\ UNCHANGED <<row, order, retired, abandoned, placed, certOf, deleted, bound, served,
                    task, refresh, reaping, mem, hot>>
  BY <1>f DEF EnumerateOld, Verdict, GiveUp, Goto, PassType, store, cloud, acme, running
<1>2. PassCopy'
  BY <1>1, <1>a DEF PassCopy
<1>3. OrderShape'
  BY <1>1, <1>a DEF OrderShape, NoOrderPcs, OrderPcs
<1>4. HandShape'
  BY <1>1, <1>f, <1>a DEF InHand, HandShape, SwitchPcs, EpiloguePcs
<1>5. HandOver'
  BY <1>1, <1>a DEF HandOver
<1>6. ServedShape'
  BY <1>1, <1>a DEF ServedShape, EpiloguePcs
<1>7. BackoffShape'
  BY <1>1, <1>a DEF BackoffShape
<1>8. CopyShape' /\ ReclaimShape' /\ LiveNotReclaimed'
  BY <1>1, <1>a DEF CopyShape, ReclaimShape, LiveNotReclaimed
<1> QED
  BY <1>2, <1>3, <1>4, <1>5, <1>6, <1>7, <1>8

\* At promotion the order's copy is the one being promoted: no orphan.
LEMMA PromoteKeeps == ASSUME ~RefreshOn, IInv, Promote PROVE Rest'
<1> USE DEF Rest
<1>a. Rest
  BY DEF IInv
<1>f. /\ pc \in Pcs /\ pass \in PassType /\ pass.st \in RowType /\ InHand
      /\ row \in RowType /\ order \in OrderType /\ mem \in MemType /\ task \in TaskType
  BY Fields
<1>1. /\ pc = "promote" /\ pc' = "commit"
      /\ pass'.st = pass.st /\ pass'.new = pass.new /\ pass'.out = pass.out
      /\ \/ /\ pass'.orphan = pass.orphan
            /\ abandoned' = abandoned \cup
                            ({order.dep} \ {NoId, IF pass.new # NoId THEN pass.new ELSE row.dep})
         \/ /\ UNCHANGED abandoned
            /\ pass'.orphan = IF order.dep = (IF pass.new # NoId THEN pass.new ELSE row.dep)
                              THEN NoId ELSE order.dep
      /\ UNCHANGED <<row, order, retired, placed, certOf, deleted, bound, served, task,
                    refresh, reaping, mem, hot>>
  BY <1>f DEF Promote, ChooseOrphan, Orphan, Goto, PassType, store, cloud, acme, running
<1>2. PassCopy'
  BY <1>1, <1>a DEF PassCopy
<1>3. OrderShape'
  BY <1>1, <1>a DEF OrderShape, NoOrderPcs, OrderPcs
<1>4. HandShape'
  BY <1>1, <1>a DEF HandShape, SwitchPcs, EpiloguePcs
<1>5. HandOver'
  <2>1. order.dep # NoId => order.dep # row.dep
    BY <1>1, <1>a, Nats DEF CopyShape, OrderShape, OrderPcs
  <2> QED
    BY <1>1, <1>a, <2>1 DEF HandOver, HandShape, EpiloguePcs
<1>6. ServedShape'
  BY <1>1, <1>a DEF ServedShape, EpiloguePcs
<1>7. BackoffShape'
  BY <1>1, <1>a DEF BackoffShape
<1>8. CopyShape' /\ ReclaimShape' /\ LiveNotReclaimed'
  BY <1>1, <1>a DEF CopyShape, ReclaimShape, LiveNotReclaimed
<1> QED
  BY <1>2, <1>3, <1>4, <1>5, <1>6, <1>7, <1>8

\* The epilogue moves row, order and reclaim list together.
LEMMA CommitKeeps == ASSUME ~RefreshOn, IInv, Commit PROVE Rest'
<1> USE DEF Rest
<1>a. Rest
  BY DEF IInv
<1>f. /\ pc \in Pcs /\ pass \in PassType /\ pass.st \in RowType /\ InHand
      /\ row \in RowType /\ order \in OrderType /\ mem \in MemType /\ task \in TaskType
  BY Fields
<1>1. /\ pc = "commit"
      /\ \/ pc' = "fail" /\ UNCHANGED <<row, order, retired, abandoned, pass>>
         \/ /\ row'.cert = order.n /\ row'.dep = pass.new
            /\ row'.conf = (pass.out = "rebound") /\ row'.wait = FALSE
            /\ order' = NoOrder
            /\ retired' = retired \cup (IF Retires THEN {pass.st.dep} ELSE {})
                                  \cup ({pass.orphan} \ {NoId})
            /\ abandoned' = abandoned \cup (IF pass.out = "off" THEN {pass.st.dep} \ {NoId} ELSE {})
            /\ pc' = "idle" /\ pass' = Blank
      /\ UNCHANGED <<placed, certOf, deleted, bound, served, task, refresh, reaping, mem,
                    hot>>
  BY <1>f DEF Commit, Promoted, AddRetired, GiveUp, Goto, Finish, store, cloud, acme, running
<1>2. PassCopy'
  BY <1>1, <1>a DEF PassCopy, Blank
<1>3. OrderShape'
  BY <1>1, <1>a, Nats DEF OrderShape, NoOrderPcs, OrderPcs, NoOrder
<1>4. CopyShape'
  <2>1. pass.new # NoId => pass.new = order.dep
    BY <1>1, <1>a DEF HandShape, EpiloguePcs
  <2> QED
    BY <1>1, <1>a, <2>1 DEF CopyShape, OrderShape, OrderPcs, NoOrder
<1>5. HandShape'
  BY <1>1, <1>a DEF HandShape, SwitchPcs, EpiloguePcs, NoOrder, Blank
<1>6. HandOver'
  BY <1>1, <1>a DEF HandOver, NoOrder, Blank
<1>7. ReclaimShape'
  <2>1. pass.orphan # NoId => certOf[pass.orphan] # 0
    BY <1>1, <1>a DEF HandShape, CopyShape, OrderShape, OrderPcs
  <2>2. Retires => certOf[pass.st.dep] # 0
    BY <1>1, <1>f, <1>a DEF Retires, InHand, EpiloguePcs, PassCopy, CopyShape
  <2> QED
    BY <1>1, <1>a, <2>1, <2>2 DEF ReclaimShape
<1>8. ServedShape'
  BY <1>1, <1>a DEF ServedShape, EpiloguePcs, Blank
<1>9. BackoffShape'
  BY <1>1, <1>a DEF BackoffShape
<1>10. LiveNotReclaimed'
  <2>1. CASE pc' = "fail"
    BY <1>1, <1>a, <2>1 DEF LiveNotReclaimed
  <2>2. CASE pc' = "idle" /\ pass.out = "off"
    BY <1>1, <1>a, <2>2 DEF LiveNotReclaimed, HandShape, EpiloguePcs, NoOrder
  <2>3. CASE pc' = "idle" /\ pass.out # "off"
    <3>1. pass.orphan = NoId /\ pass.new = order.dep /\ pass.new # NoId
      BY <1>1, <1>a, <2>3 DEF HandShape, EpiloguePcs
    <3>2. Retires => pass.st.dep # pass.new
      BY DEF Retires
    <3> QED
      BY <1>1, <1>a, <2>3, <3>1, <3>2 DEF LiveNotReclaimed, NoOrder
  <2> QED
    BY <1>1, <2>1, <2>2, <2>3
<1> QED
  BY <1>2, <1>3, <1>4, <1>5, <1>6, <1>7, <1>8, <1>9, <1>10

\* A failure writes back the row's own contents and the backoff.
LEMMA RecordFailureKeeps == ASSUME ~RefreshOn, IInv, RecordFailure PROVE Rest'
<1> USE DEF Rest
<1>a. Rest
  BY DEF IInv
<1>f. /\ pc \in Pcs /\ pass \in PassType /\ pass.st \in RowType /\ InHand
      /\ row \in RowType /\ order \in OrderType /\ mem \in MemType /\ task \in TaskType
  BY Fields
<1>1. /\ pc = "fail" /\ hot' = TRUE
      /\ pc' = "idle" /\ pass' = Blank
      /\ \/ /\ row'.cert = pass.st.cert /\ row'.dep = pass.st.dep
            /\ row'.conf = pass.st.conf /\ row'.wait
         \/ UNCHANGED row /\ mem'.wait
      /\ UNCHANGED <<order, retired, abandoned, placed, certOf, deleted, bound, served, task,
                    refresh, reaping>>
  BY <1>f DEF RecordFailure, KeepDeadline, Finish, RowType, MemType, store, cloud, acme,
     running
<1>2. PassCopy'
  BY <1>1, <1>a DEF PassCopy, Blank
<1>3. OrderShape'
  BY <1>1, <1>a DEF PassCopy, OrderShape, NoOrderPcs, OrderPcs
<1>4. CopyShape'
  BY <1>1, <1>a DEF PassCopy, CopyShape
<1>5. HandShape'
  BY <1>1, <1>a DEF HandShape, SwitchPcs, EpiloguePcs, Blank
<1>6. HandOver'
  BY <1>1, <1>a DEF HandOver, Blank
<1>7. ServedShape'
  BY <1>1, <1>a DEF ServedShape, EpiloguePcs, Blank
<1>8. BackoffShape'
  BY <1>1, <1>a DEF BackoffShape
<1>9. LiveNotReclaimed'
  BY <1>1, <1>a DEF PassCopy, LiveNotReclaimed
<1>10. ReclaimShape'
  BY <1>1, <1>a DEF ReclaimShape
<1> QED
  BY <1>2, <1>3, <1>4, <1>5, <1>6, <1>7, <1>8, <1>9, <1>10

\* The reaper deletes a listed copy, which nothing live names.
LEMMA ReapDeleteKeeps == ASSUME ~RefreshOn, IInv, ReapDelete PROVE Rest'
<1> USE DEF Rest
<1>a. Rest
  BY DEF IInv
<1>f. /\ pc \in Pcs /\ pass \in PassType /\ pass.st \in RowType /\ InHand
      /\ row \in RowType /\ order \in OrderType /\ mem \in MemType /\ task \in TaskType
  BY Fields
<1>1. /\ reaping' \in retired /\ deleted' = deleted \cup {reaping'}
      /\ UNCHANGED <<row, order, retired, abandoned, placed, certOf, bound, served, task, pc,
                    pass, refresh, mem, hot>>
  BY <1>f DEF ReapDelete, Gone, BoundTo, store, cloud, acme, running
<1>2. HandShape'
  BY <1>1, <1>a DEF HandShape, SwitchPcs, EpiloguePcs
<1>3. ReclaimShape'
  BY <1>1, <1>a DEF ReclaimShape
<1>4. LiveNotReclaimed'
  BY <1>1, <1>a DEF LiveNotReclaimed
<1>5. PassCopy' /\ OrderShape' /\ CopyShape' /\ HandOver' /\ ServedShape' /\ BackoffShape'
  BY <1>1, <1>a DEF PassCopy, OrderShape, CopyShape, HandOver, ServedShape, BackoffShape
<1> QED
  BY <1>2, <1>3, <1>4, <1>5

\* Forgetting a deleted copy leaves the live ones alone.
LEMMA ReapForgetKeeps == ASSUME ~RefreshOn, IInv, ReapForget PROVE Rest'
<1> USE DEF Rest
<1>a. Rest
  BY DEF IInv
<1>f. /\ pc \in Pcs /\ pass \in PassType /\ pass.st \in RowType /\ InHand
      /\ row \in RowType /\ order \in OrderType /\ mem \in MemType /\ task \in TaskType
  BY Fields
<1>1. /\ reaping' = NoId /\ retired' \subseteq retired
      /\ UNCHANGED <<row, order, abandoned, placed, certOf, deleted, bound, served, task, pc,
                    pass, refresh, mem, hot>>
  BY <1>f DEF ReapForget, store, cloud, acme, running
<1>2. HandShape'
  BY <1>1, <1>a DEF HandShape, SwitchPcs, EpiloguePcs
<1>3. ReclaimShape'
  BY <1>1, <1>a DEF ReclaimShape
<1>4. LiveNotReclaimed'
  BY <1>1, <1>a DEF LiveNotReclaimed
<1>5. PassCopy' /\ OrderShape' /\ CopyShape' /\ HandOver' /\ ServedShape' /\ BackoffShape'
  BY <1>1, <1>a DEF PassCopy, OrderShape, CopyShape, HandOver, ServedShape, BackoffShape
<1> QED
  BY <1>2, <1>3, <1>4, <1>5

\* The CA's decision touches no row and no copy.
LEMMA CADecidesKeeps == ASSUME ~RefreshOn, IInv, CADecides PROVE Rest'
<1> USE DEF Rest
<1>a. Rest
  BY DEF IInv
<1>f. /\ pc \in Pcs /\ pass \in PassType /\ pass.st \in RowType /\ InHand
      /\ row \in RowType /\ order \in OrderType /\ mem \in MemType /\ task \in TaskType
  BY Fields
<1>1. UNCHANGED <<row, order, retired, abandoned, placed, certOf, deleted, bound, served,
                task, pc, pass, refresh, reaping, mem, hot>>
  BY DEF CADecides, store, cloud, acme, running
<1> QED
  BY <1>1, <1>a DEF PassCopy, OrderShape, CopyShape, HandShape, HandOver, ReclaimShape, ServedShape, BackoffShape, LiveNotReclaimed

\* A task step may add a serving copy, which is never unused.
LEMMA TaskStepKeeps == ASSUME ~RefreshOn, IInv, TaskStep PROVE Rest'
<1> USE DEF Rest
<1>a. Rest
  BY DEF IInv
<1>f. /\ pc \in Pcs /\ pass \in PassType /\ pass.st \in RowType /\ InHand
      /\ row \in RowType /\ order \in OrderType /\ mem \in MemType /\ task \in TaskType
  BY Fields
<1>1. /\ task'.to = task.to
      /\ \/ /\ \E l \in Listeners : bound' = [bound EXCEPT ![l] = task.to]
            /\ served' = served \cup {task.to}
         \/ UNCHANGED <<bound, served>> /\ task'.failed
      /\ UNCHANGED <<row, order, retired, abandoned, placed, certOf, deleted, pc, pass,
                    refresh, reaping, mem, hot>>
  BY <1>f DEF TaskStep, TaskType, store, cloud, acme, running
<1>2. ServedShape'
  <2>1. CASE task'.failed /\ UNCHANGED <<bound, served>>
    BY <1>1, <1>a, <2>1 DEF ServedShape, EpiloguePcs
  <2>2. CASE served' = served \cup {task.to}
    <3>1. \A l \in Listeners : bound'[l] \in {bound[l], task.to}
      BY <1>1, <2>2, CopyIds
    <3> QED
      BY <1>1, <1>a, <2>2, <3>1 DEF ServedShape, EpiloguePcs
  <2> QED
    BY <1>1, <2>1, <2>2
<1>3. PassCopy' /\ OrderShape' /\ CopyShape' /\ HandShape' /\ HandOver' /\ ReclaimShape' /\
      BackoffShape' /\ LiveNotReclaimed'
  BY <1>1, <1>a DEF PassCopy, OrderShape, CopyShape, HandShape, HandOver, ReclaimShape,
     BackoffShape, LiveNotReclaimed
<1> QED
  BY <1>2, <1>3

\* A console bind makes the row's copy a served one.
LEMMA BindKeeps == ASSUME ~RefreshOn, IInv, Bind PROVE Rest'
<1> USE DEF Rest
<1>a. Rest
  BY DEF IInv
<1>f. /\ pc \in Pcs /\ pass \in PassType /\ pass.st \in RowType /\ InHand
      /\ row \in RowType /\ order \in OrderType /\ mem \in MemType /\ task \in TaskType
  BY Fields
<1>1. /\ row.dep # NoId
      /\ \E l \in Listeners : bound' = [bound EXCEPT ![l] = row.dep]
      /\ served' = served \cup {row.dep}
      /\ UNCHANGED <<row, order, retired, abandoned, placed, certOf, deleted, task, pc, pass,
                    refresh, reaping, mem, hot>>
  BY <1>f DEF Bind, BoundTo, store, cloud, acme, running
<1>2. ServedShape'
  BY <1>1, <1>a DEF ServedShape, EpiloguePcs
<1>3. PassCopy' /\ OrderShape' /\ CopyShape' /\ HandShape' /\ HandOver' /\ ReclaimShape' /\
      BackoffShape' /\ LiveNotReclaimed'
  BY <1>1, <1>a DEF PassCopy, OrderShape, CopyShape, HandShape, HandOver, ReclaimShape,
     BackoffShape, LiveNotReclaimed
<1> QED
  BY <1>2, <1>3

\* An unbind does not make a copy unserved in history.
LEMMA UnbindKeeps == ASSUME ~RefreshOn, IInv, Unbind PROVE Rest'
<1> USE DEF Rest
<1>a. Rest
  BY DEF IInv
<1>f. /\ pc \in Pcs /\ pass \in PassType /\ pass.st \in RowType /\ InHand
      /\ row \in RowType /\ order \in OrderType /\ mem \in MemType /\ task \in TaskType
  BY Fields
<1>1. /\ \E l \in Listeners : bound' = [bound EXCEPT ![l] = NoId]
      /\ UNCHANGED <<row, order, retired, abandoned, placed, certOf, deleted, served, task,
                    pc, pass, refresh, reaping, mem, hot>>
  BY <1>f DEF Unbind, store, cloud, acme, running
<1>2. ServedShape'
  BY <1>1, <1>a DEF ServedShape, EpiloguePcs
<1>3. PassCopy' /\ OrderShape' /\ CopyShape' /\ HandShape' /\ HandOver' /\ ReclaimShape' /\
      BackoffShape' /\ LiveNotReclaimed'
  BY <1>1, <1>a DEF PassCopy, OrderShape, CopyShape, HandShape, HandOver, ReclaimShape,
     BackoffShape, LiveNotReclaimed
<1> QED
  BY <1>2, <1>3

\* An edit changes only what later passes are handed.
LEMMA EditKeeps == ASSUME ~RefreshOn, IInv, Edit PROVE Rest'
<1> USE DEF Rest
<1>a. Rest
  BY DEF IInv
<1>f. /\ pc \in Pcs /\ pass \in PassType /\ pass.st \in RowType /\ InHand
      /\ row \in RowType /\ order \in OrderType /\ mem \in MemType /\ task \in TaskType
  BY Fields
<1>1. UNCHANGED <<row, order, retired, abandoned, placed, certOf, deleted, bound, served,
                task, pc, pass, refresh, reaping, mem, hot>>
  BY DEF Edit, store, cloud, acme, running
<1> QED
  BY <1>1, <1>a DEF PassCopy, OrderShape, CopyShape, HandShape, HandOver, ReclaimShape, ServedShape, BackoffShape, LiveNotReclaimed

\* An expiry leaves the order's copy in place.
LEMMA OrderExpiresKeeps == ASSUME ~RefreshOn, IInv, OrderExpires PROVE Rest'
<1> USE DEF Rest
<1>a. Rest
  BY DEF IInv
<1>f. /\ pc \in Pcs /\ pass \in PassType /\ pass.st \in RowType /\ InHand
      /\ row \in RowType /\ order \in OrderType /\ mem \in MemType /\ task \in TaskType
  BY Fields
<1>1. /\ order'.n = order.n /\ order'.dep = order.dep
      /\ UNCHANGED <<row, retired, abandoned, placed, certOf, deleted, bound, served, task,
                    pc, pass, refresh, reaping, mem, hot>>
  BY <1>f DEF OrderExpires, OrderType, store, cloud, acme, running
<1>2. OrderShape'
  BY <1>1, <1>a DEF OrderShape, NoOrderPcs, OrderPcs
<1>3. CopyShape'
  BY <1>1, <1>a DEF CopyShape
<1>4. HandShape'
  BY <1>1, <1>a DEF HandShape, SwitchPcs, EpiloguePcs
<1>5. HandOver'
  BY <1>1, <1>a DEF HandOver
<1>6. LiveNotReclaimed'
  BY <1>1, <1>a DEF LiveNotReclaimed
<1>7. PassCopy' /\ ReclaimShape' /\ ServedShape' /\ BackoffShape'
  BY <1>1, <1>a DEF PassCopy, ReclaimShape, ServedShape, BackoffShape
<1> QED
  BY <1>2, <1>3, <1>4, <1>5, <1>6, <1>7

\* The clock clears deadlines and nothing else.
LEMMA BackoffElapsesKeeps == ASSUME ~RefreshOn, IInv, BackoffElapses PROVE Rest'
<1> USE DEF Rest
<1>a. Rest
  BY DEF IInv
<1>f. /\ pc \in Pcs /\ pass \in PassType /\ pass.st \in RowType /\ InHand
      /\ row \in RowType /\ order \in OrderType /\ mem \in MemType /\ task \in TaskType
  BY Fields
<1>1. /\ row'.cert = row.cert /\ row'.dep = row.dep /\ row'.conf = row.conf
      /\ row'.wait = FALSE /\ hot' = FALSE /\ refresh' = NoRefresh
      /\ UNCHANGED <<order, retired, abandoned, placed, certOf, deleted, bound, served, task,
                    pc, pass, reaping>>
  <2>1. refresh' = NoRefresh
    BY <1>a DEF BackoffElapses, PassCopy, NoRefresh, BlankRow
  <2> QED
    BY <1>f, <2>1 DEF BackoffElapses, RowType, cloud, acme, running
<1>2. PassCopy'
  BY <1>1, <1>a DEF PassCopy
<1>3. OrderShape'
  BY <1>1, <1>a DEF OrderShape, NoOrderPcs, OrderPcs
<1>4. CopyShape'
  BY <1>1, <1>a DEF CopyShape
<1>5. ServedShape'
  BY <1>1, <1>a DEF ServedShape, EpiloguePcs
<1>6. BackoffShape'
  BY <1>1, <1>a DEF BackoffShape
<1>7. LiveNotReclaimed'
  BY <1>1, <1>a DEF LiveNotReclaimed
<1>8. HandShape' /\ HandOver' /\ ReclaimShape'
  BY <1>1, <1>a DEF HandShape, HandOver, ReclaimShape
<1> QED
  BY <1>2, <1>3, <1>4, <1>5, <1>6, <1>7, <1>8

\* A restart between passes loses only what was in memory.
LEMMA RestartKeeps == ASSUME ~RefreshOn, IInv, Restart PROVE Rest'
<1> USE DEF Rest
<1>a. Rest
  BY DEF IInv
<1>f. /\ pc \in Pcs /\ pass \in PassType /\ pass.st \in RowType /\ InHand
      /\ row \in RowType /\ order \in OrderType /\ mem \in MemType /\ task \in TaskType
  BY Fields
<1>1. /\ pc' = "idle" /\ pass' = Blank
      /\ refresh' = NoRefresh /\ reaping' = NoId /\ hot' = (hot /\ row.wait)
      /\ UNCHANGED <<row, order, retired, abandoned, placed, certOf, deleted, bound, served,
                    task>>
  BY <1>f DEF Restart, Stop, Finish, store, cloud, acme, running
<1>2. PassCopy'
  BY <1>1, <1>a DEF PassCopy, Blank
<1>3. OrderShape'
  BY <1>1, <1>a DEF OrderShape, NoOrderPcs, OrderPcs
<1>4. HandShape'
  BY <1>1, <1>a DEF HandShape, SwitchPcs, EpiloguePcs, Blank
<1>5. HandOver'
  BY <1>1, <1>a DEF HandOver, Blank
<1>6. ReclaimShape'
  BY <1>1, <1>a DEF ReclaimShape
<1>7. ServedShape'
  BY <1>1, <1>a DEF ServedShape, EpiloguePcs, Blank
<1>8. BackoffShape'
  BY <1>1, <1>a DEF BackoffShape
<1>9. CopyShape' /\ LiveNotReclaimed'
  BY <1>1, <1>a DEF CopyShape, LiveNotReclaimed
<1> QED
  BY <1>2, <1>3, <1>4, <1>5, <1>6, <1>7, <1>8, <1>9

\* A kill in the middle of a pass leaves a store the invariant allows.
LEMMA CrashKeeps == ASSUME ~RefreshOn, IInv, Crash PROVE Rest'
<1> USE DEF Rest
<1>a. Rest
  BY DEF IInv
<1>f. /\ pc \in Pcs /\ pass \in PassType /\ pass.st \in RowType /\ InHand
      /\ row \in RowType /\ order \in OrderType /\ mem \in MemType /\ task \in TaskType
  BY Fields
<1>1. /\ pc' = "idle" /\ pass' = Blank
      /\ refresh' = NoRefresh /\ reaping' = NoId /\ hot' = (hot /\ row.wait)
      /\ UNCHANGED <<row, order, retired, abandoned, placed, certOf, deleted, bound, served,
                    task>>
  BY <1>f DEF Crash, Stop, Finish, store, cloud, acme, running
<1>2. PassCopy'
  BY <1>1, <1>a DEF PassCopy, Blank
<1>3. OrderShape'
  BY <1>1, <1>a DEF OrderShape, NoOrderPcs, OrderPcs
<1>4. HandShape'
  BY <1>1, <1>a DEF HandShape, SwitchPcs, EpiloguePcs, Blank
<1>5. HandOver'
  BY <1>1, <1>a DEF HandOver, Blank
<1>6. ReclaimShape'
  BY <1>1, <1>a DEF ReclaimShape
<1>7. ServedShape'
  BY <1>1, <1>a DEF ServedShape, EpiloguePcs, Blank
<1>8. BackoffShape'
  BY <1>1, <1>a DEF BackoffShape
<1>9. CopyShape' /\ LiveNotReclaimed'
  BY <1>1, <1>a DEF CopyShape, LiveNotReclaimed
<1> QED
  BY <1>2, <1>3, <1>4, <1>5, <1>6, <1>7, <1>8, <1>9

\* Without the refresh no step of it is possible: it never reads.
LEMMA NoRefreshStep == ASSUME ~RefreshOn, IInv, RefreshStep PROVE FALSE
BY DEF RefreshStep, RefreshRead, RefreshLookup, RefreshWrite, IInv, Rest, PassCopy, NoRefresh

\* Every step keeps the rest of the invariant.
LEMMA RestStep == ASSUME ~RefreshOn, IInv, [Next]_vars PROVE Rest'
<1>1. CASE PassStep
  BY <1>1, BeginKeeps, BeginUnreadableKeeps, ReadOrderKeeps, DiscardKeeps, DropOrderKeeps,
     ConfirmBindingKeeps, DecideKeeps, IssueKeeps, RecordKeeps, FetchFailsKeeps,
     AdvanceKeeps, SolveKeeps, DownloadKeeps, UploadKeeps, AnchorKeeps, SwitchKeeps,
     AwaitSwitchKeeps, AwaitAdoptedKeeps, EnumerateNewKeeps, EnumerateOldKeeps,
     PromoteKeeps, CommitKeeps, RecordFailureKeeps
     DEF PassStep
<1>2. CASE ReapStep \/ CloudStep \/ OperatorStep \/ ClockStep
  BY <1>2, ReapDeleteKeeps, ReapForgetKeeps, CADecidesKeeps, TaskStepKeeps, BindKeeps,
     UnbindKeeps, EditKeeps, OrderExpiresKeeps, BackoffElapsesKeeps
     DEF ReapStep, CloudStep, OperatorStep, ClockStep
<1>3. CASE UNCHANGED vars
  BY <1>3 DEF vars, IInv, Rest, PassCopy, OrderShape, CopyShape, HandShape, HandOver,
     ReclaimShape, ServedShape, BackoffShape, LiveNotReclaimed
<1> QED
  BY <1>1, <1>2, <1>3, NoRefreshStep, RestartKeeps, CrashKeeps DEF Next

\* The empty store has it.
LEMMA RestInit == ASSUME Init PROVE Rest
<1> USE DEF Init
<1>1. PassCopy /\ OrderShape /\ CopyShape
  BY OrdersAssumption DEF PassCopy, OrderShape, CopyShape, NoOrderPcs, OrderPcs, BlankRow, NoOrder
<1>2. HandShape /\ ReclaimShape
  BY DEF HandShape, ReclaimShape, SwitchPcs, EpiloguePcs, Blank
<1>3. ServedShape
  BY DEF ServedShape, EpiloguePcs, BlankRow, NoTask
<1>4. HandOver /\ BackoffShape /\ LiveNotReclaimed
  BY DEF HandOver, BackoffShape, LiveNotReclaimed, BlankRow, NoOrder
<1> QED
  BY <1>1, <1>2, <1>3, <1>4 DEF Rest

\* The inductive invariant, for any ids, listeners, configurations and bounds.
THEOREM Inductive == ASSUME ~RefreshOn PROVE Spec => []IInv
<1>1. Init => IInv
  BY RestInit, InitTyped DEF IInv
<1>2. IInv /\ [Next]_vars => IInv'
  BY RestStep, TypeStep, HandStep DEF IInv, TypeInv
<1> QED
  BY <1>1, <1>2, PTL DEF Spec

\* Key and cloud id in the row are always of one issuance: the row never names
\* a copy of another certificate, whatever fails and wherever the process dies.
THEOREM RowCoherentAlways == ASSUME ~RefreshOn PROVE Spec => []RowCoherent
<1>1. IInv => RowCoherent
  BY DEF IInv, Rest, CopyShape, RowCoherent
<1> QED
  BY <1>1, Inductive, PTL

\* No copy the row or the order still names is ever on the reclaim list, or
\* deleted: the reaper cannot take the live certificate.
THEOREM LiveNeverReclaimed == ASSUME ~RefreshOn PROVE Spec => []LiveNotReclaimed
<1>1. IInv => LiveNotReclaimed
  BY DEF IInv, Rest
<1> QED
  BY <1>1, Inductive, PTL

\* A row that says "deployed" names a copy that some listener has served.
THEOREM ConfirmedWasServed == ASSUME ~RefreshOn PROVE Spec => []ConfirmedMeansServed
<1>1. IInv => ConfirmedMeansServed
  BY DEF IInv, Rest, ServedShape, ConfirmedMeansServed
<1> QED
  BY <1>1, Inductive, PTL

\* The row is sound in every reachable state: the three at once.
THEOREM RowIsAlwaysSound == ASSUME ~RefreshOn PROVE Spec => []RowIsSound
<1>1. RowCoherent /\ LiveNotReclaimed /\ ConfirmedMeansServed => RowIsSound
  BY DEF RowIsSound
<1> QED
  BY <1>1, RowCoherentAlways, LiveNeverReclaimed, ConfirmedWasServed, PTL

-----------------------------------------------------------------------------
(* What a step may never do: consequences of IInv.                        *)

\* The steps that write the certificate's row.
LEMMA RowWriters ==
    ASSUME [Next]_vars
    PROVE  \/ UNCHANGED row
           \/ BeginUnreadable \/ ConfirmBinding \/ Commit \/ RecordFailure
           \/ RefreshStep \/ BackoffElapses
<1>1. CASE PassStep
  BY <1>1 DEF PassStep, Begin, ReadOrder, Discard, DropOrder, Decide, Issue, Record,
     FetchFails, Advance, Solve, Download, Upload, Anchor, Switch, AwaitSwitch,
     AwaitAdopted, EnumerateNew, EnumerateOld, Promote, store
<1>2. CASE ReapStep \/ CloudStep \/ OperatorStep \/ ClockStep \/ Restart \/ Crash
  BY <1>2 DEF ReapStep, ReapDelete, ReapForget, CloudStep, CADecides, TaskStep,
     OperatorStep, Bind, Unbind, Edit, ClockStep, OrderExpires, Restart, Crash, Stop, store
<1> QED
  BY <1>1, <1>2 DEF Next, vars

\* A promotion is never undone: no later step puts an older certificate back.
THEOREM NeverOlder == ASSUME ~RefreshOn PROVE Spec => PromotionNeverUndone
<1>1. IInv /\ [Next]_vars => (row.cert <= row'.cert)
  <2> SUFFICES ASSUME IInv, [Next]_vars PROVE row.cert <= row'.cert
    OBVIOUS
  <2>1. row.cert \in Nat /\ order.n \in Nat
    BY Nats
  <2>2. row \in RowType /\ PassCopy /\ OrderShape
    BY Fields DEF IInv, Rest
  <2>r. pass.st \in RowType
    BY Fields
  <2>3. CASE Commit
    BY <2>1, <2>2, <2>3 DEF Commit, Promoted, OrderShape, OrderPcs
  <2>4. CASE ConfirmBinding \/ RecordFailure
    BY <2>1, <2>2, <2>r, <2>4 DEF ConfirmBinding, RecordFailure, PassCopy, RowType
  <2>5. CASE BeginUnreadable \/ BackoffElapses
    BY <2>1, <2>2, <2>5 DEF BeginUnreadable, FailureColumns, BackoffElapses, RowType
  <2>6. CASE UNCHANGED row
    BY <2>1, <2>6
  <2> QED
    BY <2>3, <2>4, <2>5, <2>6, NoRefreshStep, RowWriters
<1> QED
  BY <1>1, Inductive, PTL DEF Spec, PromotionNeverUndone

\* Only Issue places orders at the CA.
LEMMA OnlyIssuePlaces == ASSUME [Next]_vars, placed' # placed PROVE Issue
<1>1. CASE PassStep
  BY <1>1 DEF PassStep, Begin, BeginUnreadable, ReadOrder, Discard, DropOrder,
     ConfirmBinding, Decide, Record, FetchFails, Advance, Solve, Download, Upload, Anchor,
     Switch, AwaitSwitch, AwaitAdopted, EnumerateNew, EnumerateOld, Promote, Commit,
     RecordFailure, acme
<1>2. CASE RefreshStep \/ ReapStep \/ CloudStep \/ OperatorStep \/ ClockStep \/ Restart \/ Crash
  BY <1>2 DEF RefreshStep, RefreshRead, RefreshLookup, RefreshWrite, ReapStep, ReapDelete,
     ReapForget, CloudStep, CADecides, TaskStep, OperatorStep, Bind, Unbind, Edit,
     ClockStep, OrderExpires, BackoffElapses, Restart, Crash, Stop, acme
<1> QED
  BY <1>1, <1>2 DEF Next, vars

\* Which steps change what the rows name.
LEMMA RegisterWriters ==
    ASSUME ~RefreshOn, IInv, [Next]_vars
    PROVE  \/ row'.dep = row.dep /\ order'.dep = order.dep /\ UNCHANGED retired
           \/ Record \/ Anchor \/ DropOrder \/ Commit \/ ReapForget
<1>f. row \in RowType /\ order \in OrderType /\ pass.st \in RowType
  BY Fields
<1>1. CASE BeginUnreadable \/ BackoffElapses
  BY <1>1, <1>f DEF BeginUnreadable, FailureColumns, BackoffElapses, RowType
<1>2. CASE ConfirmBinding \/ RecordFailure
  BY <1>2, <1>f DEF ConfirmBinding, RecordFailure, RowType, IInv, Rest, PassCopy
<1>3. CASE OrderExpires
  BY <1>3, <1>f DEF OrderExpires, OrderType
<1>4. CASE UNCHANGED <<row, order, retired>>
  BY <1>4
<1>5. CASE PassStep
  BY <1>1, <1>2, <1>4, <1>5 DEF PassStep, Begin, ReadOrder, Discard, Decide, Issue,
     FetchFails, Advance, Solve, Download, Upload, Switch, AwaitSwitch, AwaitAdopted,
     EnumerateNew, EnumerateOld, Promote, store
<1>6. CASE ReapDelete \/ CloudStep \/ OperatorStep \/ Restart \/ Crash \/ UNCHANGED vars
  BY <1>4, <1>6 DEF ReapDelete, CloudStep, CADecides, TaskStep, OperatorStep, Bind, Unbind,
     Edit, Restart, Crash, Stop, store, vars
<1> QED
  BY <1>1, <1>3, <1>5, <1>6, NoRefreshStep DEF Next, ReapStep, ClockStep

\* Invariant 1 of the package: the CA is never asked for an order while one is
\* on disk, so an interrupted pass resumes instead of ordering again.
THEOREM OneOrderAtATime == ASSUME ~RefreshOn PROVE Spec => OneOrder
<1>1. IInv /\ [Next]_vars => (placed' # placed => order.n = 0)
  <2> SUFFICES ASSUME IInv, [Next]_vars, placed' # placed PROVE order.n = 0
    OBVIOUS
  <2>1. Issue
    BY OnlyIssuePlaces
  <2> QED
    BY <2>1 DEF Issue, IInv, Rest, OrderShape, NoOrderPcs
<1> QED
  BY <1>1, Inductive, PTL DEF Spec, OneOrder

\* A failed pass costs its backoff before the CA is asked again, whichever of
\* its writes failed and even across a restart, if the row could be written.
THEOREM BackoffIsRespected == ASSUME ~RefreshOn PROVE Spec => BackoffRespected
<1>1. IInv /\ [Next]_vars => (placed' # placed => ~hot)
  <2> SUFFICES ASSUME IInv, [Next]_vars, placed' # placed PROVE ~hot
    OBVIOUS
  <2>1. Issue
    BY OnlyIssuePlaces
  <2> QED
    BY <2>1 DEF Issue, IInv, Rest, BackoffShape
<1> QED
  BY <1>1, Inductive, PTL DEF Spec, BackoffRespected

\* Both together: the CA is asked for one order at a time, and at its pace.
THEOREM OrdersAreAlwaysPaced == ASSUME ~RefreshOn PROVE Spec => OrdersArePaced
  BY OneOrderAtATime, BackoffIsRespected DEF OrdersArePaced

\* No step forgets a copy: what a row names is named by a row afterwards, is
\* deleted from the account, or was given up with a log line.
THEOREM NothingForgotten == ASSUME ~RefreshOn PROVE Spec => NeverForgotten
<1>1. IInv /\ [Next]_vars =>
        \A id \in Tracked : id \in Tracked' \cup deleted' \cup abandoned'
  <2> SUFFICES ASSUME IInv, [Next]_vars
               PROVE  \A id \in Tracked : id \in Tracked' \cup deleted' \cup abandoned'
    OBVIOUS
  <2>a. OrderShape /\ HandShape /\ HandOver /\ PassCopy /\ ReclaimShape
    BY DEF IInv, Rest
  <2>f. row \in RowType /\ order \in OrderType /\ pass.st \in RowType
    BY Fields
  <2> USE DEF Tracked
  <2>1. CASE row'.dep = row.dep /\ order'.dep = order.dep /\ UNCHANGED retired
    BY <2>1
  <2>2. CASE Record
    BY <2>2, <2>a DEF Record, OrderShape, NoOrderPcs
  <2>3. CASE Anchor
    BY <2>3, <2>a, <2>f DEF Anchor, HandShape, AddRetired, OrderType
  <2>4. CASE DropOrder
    BY <2>4, <2>a DEF DropOrder, DropFails, OrderDropped, AddRetired, HandOver
  <2>5. CASE Commit
    <3> DEFINE Landed ==
          /\ row' = Promoted
          /\ retired' = retired \cup (IF Retires THEN {pass.st.dep} ELSE {})
                                 \cup ({pass.orphan} \ {NoId})
          /\ abandoned' = abandoned \cup
                          (IF pass.out = "off" THEN {pass.st.dep} \ {NoId} ELSE {})
    <3>1. CASE UNCHANGED <<row, order, retired>>
      BY <3>1
    <3>2. CASE Landed /\ pass.out = "off"
      <4>1. row.dep \in {NoId} \cup abandoned'
        BY <2>5, <3>2, <2>a DEF Commit, PassCopy
      <4>2. order.dep \in {NoId} \cup retired' \cup abandoned'
        BY <2>5, <3>2, <2>a DEF Commit, HandOver
      <4> QED
        BY <2>f, <3>2, <4>1, <4>2 DEF RowType
    <3>3. CASE Landed /\ pass.out # "off"
      <4>1. pass.out \in {"first", "rebound", "unverified", "nothing"}
            /\ pass.new = order.dep /\ (pass.out = "first" => pass.st.dep = NoId)
        BY <2>5, <3>3, <2>a DEF Commit, HandShape, EpiloguePcs
      <4>2. row'.dep = order.dep /\ pass.st.dep = row.dep
        BY <2>5, <3>3, <4>1, <2>a DEF Commit, Promoted, PassCopy
      <4>3. row.dep \in {NoId, order.dep} \cup retired'
        BY <3>3, <4>1, <4>2 DEF Retires
      <4> QED
        BY <3>3, <4>2, <4>3
    <3> QED
      BY <2>5, <3>1, <3>2, <3>3 DEF Commit, AddRetired
  <2>6. CASE ReapForget
    BY <2>6, <2>a DEF ReapForget, ReclaimShape, cloud
  <2> QED
    BY <2>1, <2>2, <2>3, <2>4, <2>5, <2>6, RegisterWriters
<1> QED
  BY <1>1, Inductive, PTL DEF Spec, NeverForgotten

-----------------------------------------------------------------------------
(* Renewal implements CloudCopies: every step is one of the abstract moves *)
(* of a copy, or leaves every copy in its phase.                          *)

Ph == [id \in Ids |-> PhaseOf(id)]

\* The steps that upload, delete or let go of a copy in hand.
Steady == /\ UNCHANGED <<certOf, deleted>>
          /\ pc = "anchor" <=> pc' = "anchor"
          /\ pc = "anchor" => pass'.new = pass.new
Named == row'.dep = row.dep /\ order'.dep = order.dep /\ UNCHANGED retired

\* Where no input of PhaseOf changes, no copy changes its phase.
LEMMA SamePhases == ASSUME Steady, Named PROVE UNCHANGED Ph
<1>1. \A id \in Ids : PhaseOf(id)' = PhaseOf(id)
  BY DEF Steady, Named, PhaseOf
<1> QED
  BY <1>1 DEF Ph

\* Which steps touch the account or the copy in hand.
LEMMA HandWriters ==
    ASSUME ~RefreshOn, IInv, [Next]_vars
    PROVE  Steady \/ Upload \/ Anchor \/ ReapDelete \/ Crash
<1>f. pass \in PassType /\ InHand
  BY Fields
<1>1. CASE Begin \/ BeginUnreadable \/ ReadOrder \/ Discard
  BY <1>1 DEF Steady, Begin, BeginUnreadable, ReadOrder, Discard, ChooseOrphan, Goto, GiveUp,
     cloud, running
<1>2. CASE DropOrder
  <2>1. pass.then \in {"decide", "fail", "idle"}
    BY <1>2, <1>f DEF DropOrder, InHand, PassType
  <2> QED
    BY <1>2, <2>1 DEF Steady, DropOrder, OrderDropped, DropFails, Goto, GiveUp, Finish, cloud
<1>3. CASE ConfirmBinding \/ Decide \/ Issue \/ Record
  BY <1>3 DEF Steady, ConfirmBinding, Decide, Issue, Record, Goto, GiveUp, Finish, cloud
<1>4. CASE FetchFails \/ Advance \/ Solve \/ Download
  BY <1>4 DEF Steady, FetchFails, Advance, Solve, Download, Goto, GiveUp, cloud, running
<1>5. CASE Switch \/ AwaitSwitch \/ AwaitAdopted
  BY <1>5 DEF Steady, Switch, AwaitSwitch, AwaitAdopted, SwitchDone, SwitchError, Goto
<1>6. CASE EnumerateNew \/ EnumerateOld
  BY <1>6 DEF Steady, EnumerateNew, EnumerateOld, AfterNewEnumerated, Verdict, Goto, GiveUp,
     cloud
<1>7. CASE Promote \/ Commit \/ RecordFailure
  BY <1>7 DEF Steady, Promote, ChooseOrphan, Commit, RecordFailure, Goto, GiveUp, Finish,
     cloud
<1>8. CASE ReapForget \/ CloudStep \/ OperatorStep \/ ClockStep
  BY <1>8 DEF Steady, ReapForget, CloudStep, CADecides, TaskStep, OperatorStep, Bind, Unbind,
     Edit, ClockStep, OrderExpires, BackoffElapses, cloud, running
<1>9. CASE Restart \/ UNCHANGED vars
  BY <1>9 DEF Steady, Restart, Stop, Finish, cloud, vars
<1> QED
  BY <1>1, <1>2, <1>3, <1>4, <1>5, <1>6, <1>7, <1>8, <1>9, NoRefreshStep
     DEF Next, PassStep, ReapStep

\* The phases IInv gives to what the rows name and the pass has in hand.
LEMMA Phased ==
    ASSUME IInv
    PROVE  /\ row.dep # NoId => PhaseOf(row.dep) = "live"
           /\ order.dep # NoId => PhaseOf(order.dep) = "anchored" /\ order.dep # row.dep
           /\ pc = "anchor" => PhaseOf(pass.new) = "held"
           /\ \A id \in retired \ deleted : PhaseOf(id) = "retired"
           /\ \A id \in Ids : /\ PhaseOf(id) = "live" => id = row.dep
                              /\ PhaseOf(id) = "anchored" => id = order.dep
                              /\ PhaseOf(id) = "held" => pc = "anchor" /\ id = pass.new
<1>i. OrderShape /\ CopyShape /\ HandShape /\ ReclaimShape /\ LiveNotReclaimed /\ InHand
  BY DEF IInv, Rest, TypeInv
<1>n. row.cert \in Nat /\ order.n \in Nat
  BY Nats
<1>1. row.dep # NoId => certOf[row.dep] # 0 /\ row.dep \notin retired \cup deleted
  BY <1>i DEF CopyShape, LiveNotReclaimed
<1>2. order.dep # NoId => /\ certOf[order.dep] = order.n /\ order.n # 0 /\ row.cert < order.n
                          /\ order.dep \notin retired \cup deleted
  BY <1>i DEF CopyShape, LiveNotReclaimed, OrderShape
<1>3. order.dep # NoId => order.dep # row.dep
  BY <1>i, <1>n, <1>2 DEF CopyShape
<1>4. pc = "anchor" => /\ certOf[pass.new] = order.n /\ order.n # 0 /\ row.cert < order.n
                       /\ order.dep = NoId /\ pass.new # NoId
                       /\ pass.new \notin retired \cup deleted
  BY <1>i DEF HandShape, OrderShape, InHand, OrderPcs
<1>5. pc = "anchor" => pass.new # row.dep
  BY <1>i, <1>n, <1>4 DEF CopyShape
<1>6. \A id \in retired \ deleted : certOf[id] # 0 /\ id # row.dep /\ id # order.dep
  <2> SUFFICES ASSUME NEW id \in retired \ deleted
               PROVE  certOf[id] # 0 /\ id # row.dep /\ id # order.dep
    OBVIOUS
  <2>1. id # NoId
    BY CopyIds, IdsAssumption
  <2> QED
    BY <1>1, <1>2, <1>i, <2>1 DEF ReclaimShape
<1> QED
  BY <1>1, <1>2, <1>3, <1>4, <1>5, <1>6 DEF PhaseOf

\* Where one copy is in another phase and the others are not, it has moved.
LEMMA OneMoves ==
    ASSUME NEW CONSTANT i \in Ids, NEW CONSTANT p, PhaseOf(i)' = p,
           \A j \in Ids \ {i} : PhaseOf(j)' = PhaseOf(j)
    PROVE  Copies!Become(i, p)
BY DEF Copies!Become

-----------------------------------------------------------------------------
(* The steps that move a copy                                              *)

\* An upload takes an unused id in hand; nothing else is on its way.
LEMMA UploadMoves == ASSUME ~RefreshOn, IInv, Upload PROVE Copies!Next \/ UNCHANGED Ph
<1>i. OrderShape /\ CopyShape /\ HandShape /\ ReclaimShape /\ LiveNotReclaimed
  BY DEF IInv, Rest
<1>1. /\ pc = "upload" /\ order.n # 0 /\ order.dep = NoId /\ pc # "anchor"
      /\ UNCHANGED <<row, order, retired, deleted>>
  BY <1>i DEF Upload, HandShape, OrderShape, OrderPcs, store
<1>2. CASE GiveUp /\ UNCHANGED certOf
  <2>1. Steady /\ Named
    BY <1>1, <1>2 DEF Steady, Named, GiveUp, Goto
  <2> QED
    BY <2>1, SamePhases
<1>3. ASSUME NEW id \in Ids, certOf[id] = 0, certOf' = [certOf EXCEPT ![id] = order.n],
             pc' = "anchor", pass' = [pass EXCEPT !.new = id]
      PROVE  Copies!Upload(id)
  <2>1. pass'.new = id
    BY <1>3, Fields DEF PassType
  <2>2. id \notin retired \cup deleted /\ id # row.dep /\ id # order.dep
    BY <1>1, <1>3, <1>i, IdsAssumption DEF ReclaimShape, CopyShape
  <2>3. certOf'[id] # 0 /\ \A j \in Ids \ {id} : certOf'[j] = certOf[j]
    BY <1>1, <1>3, CopyIds
  <2>4. PhaseOf(id) = "unused" /\ PhaseOf(id)' = "held"
    BY <1>1, <1>3, <2>1, <2>2, <2>3 DEF PhaseOf
  <2>5. \A j \in Ids \ {id} : PhaseOf(j)' = PhaseOf(j)
    BY <1>1, <1>3, <2>1, <2>3 DEF PhaseOf
  <2>6. \A j \in Ids : PhaseOf(j) \notin {"held", "anchored"}
    BY <1>1, Phased, IdsAssumption
  <2> QED
    BY <2>4, <2>5, <2>6 DEF Copies!Upload, Copies!In, Copies!Become
<1> QED
  BY <1>2, <1>3 DEF Upload, Copies!Next

\* The copy in hand is anchored, reclaimed or lost.
LEMMA AnchorMoves == ASSUME ~RefreshOn, IInv, Anchor PROVE Copies!Next \/ UNCHANGED Ph
<1>i. OrderShape /\ HandShape /\ InHand
  BY DEF IInv, Rest, TypeInv
<1>1. /\ pc = "anchor" /\ pass.new \in Ids /\ order.dep = NoId /\ pass.new # NoId
      /\ UNCHANGED <<row, certOf, deleted>> /\ pc' \in {"switch", "fail"}
  BY <1>i, CopyIds DEF Anchor, HandShape, InHand, GiveUp, Goto, cloud
<1>x. PICK x \in Ids : x = pass.new
  BY <1>1
<1>2. PhaseOf(x) = "held" /\ certOf[x] # 0 /\ x \notin retired \cup deleted /\ x # row.dep
  BY <1>1, <1>x, Phased DEF PhaseOf
<1>3. CASE order' = [order EXCEPT !.dep = pass.new] /\ UNCHANGED retired
  <2>1. order'.dep = x
    BY <1>3, <1>x, Fields DEF OrderType
  <2>2. PhaseOf(x)' = "anchored"
    BY <1>1, <1>2, <2>1 DEF PhaseOf
  <2>3. \A j \in Ids \ {x} : PhaseOf(j)' = PhaseOf(j)
    BY <1>1, <1>3, <2>1, IdsAssumption DEF PhaseOf
  <2>4. Copies!Anchor(x)
    BY <1>2, <1>1, <2>2, <2>3 DEF Copies!Anchor, Copies!Become
  <2> QED
    BY <1>1, <2>4 DEF Copies!Next
<1>4. CASE UNCHANGED order /\ (AddRetired({pass.new}) \/ UNCHANGED retired)
  <2>1. \/ retired' = retired \cup {x}
        \/ retired' = retired
    BY <1>4, <1>x DEF AddRetired
  <2>2. PICK p \in {"retired", "stray"} :
             p = IF retired' = retired \cup {x} THEN "retired" ELSE "stray"
    OBVIOUS
  <2>p. PhaseOf(x)' = p
    BY <1>1, <1>2, <1>4, <2>1, <2>2 DEF PhaseOf
  <2>3. \A j \in Ids \ {x} : PhaseOf(j)' = PhaseOf(j)
    BY <1>1, <1>x, <1>4, <2>1 DEF PhaseOf
  <2>4. Copies!Become(x, p)
    BY <2>p, <2>3, OneMoves
  <2>5. Copies!GiveUp(x)
    BY <1>2, <2>2, <2>4 DEF Copies!GiveUp
  <2> QED
    BY <2>5 DEF Copies!Next
<1> QED
  BY <1>3, <1>4 DEF Anchor

\* A kill loses the copy in hand, and no other.
LEMMA CrashMoves == ASSUME ~RefreshOn, IInv, Crash PROVE Copies!Next \/ UNCHANGED Ph
<1>1. UNCHANGED <<row, order, retired, certOf, deleted>> /\ pc' = "idle"
  BY DEF Crash, Stop, Finish, store, cloud
<1>2. CASE pc # "anchor"
  BY <1>1, <1>2, SamePhases DEF Steady, Named
<1>3. CASE pc = "anchor"
  <2>1. PICK x \in Ids : x = pass.new
    BY <1>3, CopyIds, Fields DEF InHand
  <2>2. PhaseOf(x) = "held" /\ PhaseOf(x)' = "stray"
    BY <1>1, <1>3, <2>1, Phased DEF PhaseOf
  <2>3. \A j \in Ids \ {x} : PhaseOf(j)' = PhaseOf(j)
    BY <1>1, <1>3, <2>1 DEF PhaseOf
  <2>4. Copies!GiveUp(x)
    BY <2>1, <2>2, <2>3 DEF Copies!GiveUp, Copies!Become
  <2> QED
    BY <2>1, <2>4 DEF Copies!Next
<1> QED
  BY <1>2, <1>3

\* Dropping an order gives its copy up: to the reclaim list, or to the log.
LEMMA DropMoves == ASSUME ~RefreshOn, IInv, DropOrder PROVE Copies!Next \/ UNCHANGED Ph
<1>i. HandShape /\ HandOver /\ LiveNotReclaimed
  BY DEF IInv, Rest
<1>1. pc = "drop" /\ UNCHANGED <<row, certOf, deleted>> /\ pc' # "anchor"
  <2>1. pass.then \in {"decide", "fail", "idle"}
    BY Fields DEF DropOrder, InHand, PassType
  <2> QED
    BY <2>1 DEF DropOrder, OrderDropped, DropFails, Goto, GiveUp, Finish, cloud
<1>2. CASE UNCHANGED <<order, retired>>
  BY <1>1, <1>2, SamePhases DEF Steady, Named
<1>3. CASE order' = NoOrder /\ retired' = retired \cup ({pass.orphan} \ {NoId})
  <2>1. order'.dep = NoId
    BY <1>3 DEF NoOrder
  <2>2. pass.orphan \in {NoId, order.dep}
    BY <1>1, <1>i DEF HandShape
  <2>3. CASE order.dep = NoId
    BY <1>1, <1>3, <2>1, <2>2, <2>3, SamePhases DEF Steady, Named
  <2>4. CASE order.dep # NoId
    <3>x. PICK x \in Ids : x = order.dep
      BY <2>4, CopyIds
    <3>1. PhaseOf(x) = "anchored" /\ x # row.dep
      BY <2>4, <3>x, Phased
    <3>2. certOf[x] # 0 /\ x \notin retired \cup deleted
      BY <2>4, <3>x, <3>1, <1>i DEF PhaseOf, LiveNotReclaimed
    <3>3. PICK p \in {"retired", "stray"} : PhaseOf(x)' = p
      BY <1>1, <1>3, <2>1, <2>2, <2>4, <3>x, <3>1, <3>2, IdsAssumption DEF PhaseOf
    <3>4. \A j \in Ids \ {x} : PhaseOf(j)' = PhaseOf(j)
      BY <1>1, <1>3, <2>1, <2>2, <3>x, IdsAssumption DEF PhaseOf
    <3>5. Copies!Become(x, p)
      BY <3>3, <3>4, OneMoves
    <3>6. Copies!GiveUp(x)
      BY <3>1, <3>3, <3>5 DEF Copies!GiveUp
    <3> QED
      BY <3>6 DEF Copies!Next
  <2> QED
    BY <2>3, <2>4
<1> QED
  BY <1>2, <1>3 DEF DropOrder, OrderDropped, DropFails, AddRetired

\* The epilogue promotes the anchored copy and retires the live one in the same
\* step; with deployment off it lets go of the live one.
LEMMA CommitMoves == ASSUME ~RefreshOn, IInv, Commit PROVE Copies!Next \/ UNCHANGED Ph
<1> DEFINE Landed == /\ row' = Promoted /\ order' = NoOrder
                     /\ retired' = retired \cup (IF Retires THEN {pass.st.dep} ELSE {})
                                            \cup ({pass.orphan} \ {NoId})
<1>i. HandShape /\ LiveNotReclaimed /\ PassCopy /\ InHand
  BY DEF IInv, Rest, TypeInv
<1>1. /\ pc = "commit" /\ UNCHANGED <<certOf, deleted>> /\ pc' # "anchor"
      /\ pass.st.dep = row.dep
  BY <1>i DEF Commit, GiveUp, Goto, Finish, cloud, PassCopy
<1>d. /\ row.dep # NoId => /\ PhaseOf(row.dep) = "live" /\ certOf[row.dep] # 0
                           /\ row.dep \notin retired \cup deleted
      /\ order.dep # NoId => /\ PhaseOf(order.dep) = "anchored" /\ certOf[order.dep] # 0
                             /\ order.dep \notin retired \cup deleted
                             /\ order.dep # row.dep
  BY <1>i, Phased DEF PhaseOf, LiveNotReclaimed
<1>l. \A j \in Ids : /\ PhaseOf(j) = "live" => j = row.dep
                     /\ PhaseOf(j) = "anchored" => j = order.dep
                     /\ j # NoId
  BY Phased, IdsAssumption
<1>2. CASE UNCHANGED <<row, order, retired>>
  BY <1>1, <1>2, SamePhases DEF Steady, Named
<1>3. CASE Landed /\ pass.out = "off"
  <2>1. row'.dep = NoId /\ order'.dep = NoId /\ pass.orphan \in {NoId, order.dep}
    BY <1>1, <1>3, <1>i DEF Promoted, NoOrder, HandShape, EpiloguePcs
  <2>2. retired' = retired \cup ({pass.orphan} \ {NoId})
    BY <1>3 DEF Retires
  <2>p. PICK p \in {"retired", "stray"} :
             p = IF pass.orphan = order.dep THEN "retired" ELSE "stray"
    OBVIOUS
  <2>3. \A j \in Ids : PhaseOf(j)' = CASE PhaseOf(j) = "live" -> "stray"
                                       [] PhaseOf(j) = "anchored" -> p
                                       [] OTHER -> PhaseOf(j)
    <3> SUFFICES ASSUME NEW j \in Ids
                 PROVE  PhaseOf(j)' = CASE PhaseOf(j) = "live" -> "stray"
                                       [] PhaseOf(j) = "anchored" -> p
                                       [] OTHER -> PhaseOf(j)
      OBVIOUS
    <3>1. CASE j = row.dep
      BY <1>1, <1>d, <1>l, <2>1, <2>2, <3>1 DEF PhaseOf
    <3>2. CASE j = order.dep /\ j # row.dep
      BY <1>1, <1>d, <1>l, <2>1, <2>2, <2>p, <3>2 DEF PhaseOf
    <3>3. CASE j # order.dep /\ j # row.dep
      BY <1>1, <1>l, <2>1, <2>2, <3>3 DEF PhaseOf
    <3> QED
      BY <3>1, <3>2, <3>3
  <2>4. CASE row.dep # NoId
    <3>1. Copies!In("live") # {}
      BY <2>4, <1>d, CopyIds DEF Copies!In
    <3>2. Copies!LetGo
      BY <2>3, <3>1 DEF Copies!LetGo
    <3> QED
      BY <3>2 DEF Copies!Next
  <2>5. CASE row.dep = NoId /\ order.dep # NoId
    <3>x. PICK x \in Ids : x = order.dep
      BY <2>5, CopyIds
    <3>1. PhaseOf(x) = "anchored" /\ PhaseOf(x)' = p
      BY <1>d, <2>3, <2>5, <3>x
    <3>2. \A j \in Ids \ {x} : PhaseOf(j)' = PhaseOf(j)
      BY <1>l, <2>3, <2>5, <3>x
    <3>3. Copies!Become(x, p)
      BY <3>1, <3>2, OneMoves
    <3>4. Copies!GiveUp(x)
      BY <3>1, <3>3 DEF Copies!GiveUp
    <3> QED
      BY <3>4 DEF Copies!Next
  <2>6. CASE row.dep = NoId /\ order.dep = NoId
    BY <1>1, <2>1, <2>2, <2>6, SamePhases DEF Steady, Named
  <2> QED
    BY <2>4, <2>5, <2>6
<1>4. CASE Landed /\ pass.out # "off"
  <2>1. /\ order.dep # NoId /\ pass.new = order.dep /\ pass.orphan = NoId
        /\ pass.out = "first" => row.dep = NoId
        /\ pass.out # "first" => pass.out \in {"rebound", "unverified", "nothing"}
    BY <1>1, <1>4, <1>i DEF HandShape, EpiloguePcs
  <2>2. row'.dep = order.dep /\ order'.dep = NoId
    BY <1>4, <2>1 DEF Promoted, NoOrder
  <2>3. retired' = retired \cup ({row.dep} \ {NoId})
    <3>1. pass.out # "first" => row.dep # NoId
      BY <1>1, <1>i, <2>1 DEF InHand, EpiloguePcs
    <3>2. Retires <=> pass.out # "first"
      BY <1>1, <1>d, <2>1, <3>1 DEF Retires
    <3> QED
      BY <1>1, <1>4, <2>1, <3>1, <3>2
  <2>x. PICK x \in Ids : x = order.dep
    BY <2>1, CopyIds
  <2>4. \A j \in Ids : PhaseOf(j)' = IF j = x THEN "live"
                                     ELSE IF PhaseOf(j) = "live" THEN "retired" ELSE PhaseOf(j)
    <3> SUFFICES ASSUME NEW j \in Ids
                 PROVE  PhaseOf(j)' = IF j = x THEN "live"
                                      ELSE IF PhaseOf(j) = "live" THEN "retired" ELSE PhaseOf(j)
      OBVIOUS
    <3>1. CASE j = row.dep
      BY <1>1, <1>d, <1>l, <2>1, <2>2, <2>3, <2>x, <3>1 DEF PhaseOf
    <3>2. CASE j = x
      BY <1>1, <1>d, <2>1, <2>2, <2>x, <3>2 DEF PhaseOf
    <3>3. CASE j # x /\ j # row.dep
      BY <1>1, <1>l, <2>2, <2>3, <2>x, <3>3 DEF PhaseOf
    <3> QED
      BY <3>1, <3>2, <3>3
  <2>5. Copies!Promote(x)
    BY <1>d, <2>1, <2>4, <2>x DEF Copies!Promote
  <2> QED
    BY <2>5 DEF Copies!Next
<1> QED
  BY <1>2, <1>3, <1>4 DEF Commit, AddRetired

\* The reaper deletes retired copies only, and forgets only deleted ones.
LEMMA ReapMoves ==
    ASSUME ~RefreshOn, IInv, ReapDelete \/ ReapForget PROVE Copies!Next \/ UNCHANGED Ph
<1>1. UNCHANGED <<row, order, certOf, pc, pass>>
  BY DEF ReapDelete, ReapForget, store, cloud, running
<1>2. ASSUME NEW id \in retired, deleted' = deleted \cup {id}, UNCHANGED retired
      PROVE  Copies!Next \/ UNCHANGED Ph
  <2>1. CASE id \in deleted
    BY <1>1, <1>2, <2>1, SamePhases DEF Steady, Named
  <2>2. CASE id \notin deleted
    <3>1. id \in Ids /\ PhaseOf(id) = "retired"
      BY <2>2, Phased, CopyIds
    <3>2. PhaseOf(id)' = "gone"
      BY <1>1, <1>2, <3>1 DEF PhaseOf
    <3>3. \A j \in Ids \ {id} : PhaseOf(j)' = PhaseOf(j)
      BY <1>1, <1>2 DEF PhaseOf
    <3>4. Copies!Delete(id)
      BY <3>1, <3>2, <3>3, OneMoves DEF Copies!Delete
    <3> QED
      BY <3>1, <3>4 DEF Copies!Next
  <2> QED
    BY <2>1, <2>2
<1>3. CASE ReapForget
  <2>1. UNCHANGED deleted /\ retired \ deleted = retired' \ deleted'
    BY <1>3 DEF ReapForget, cloud, IInv, Rest, ReclaimShape
  <2>2. \A j \in Ids : PhaseOf(j)' = PhaseOf(j)
    BY <1>1, <2>1 DEF PhaseOf
  <2> QED
    BY <2>2 DEF Ph
<1> QED
  BY <1>2, <1>3 DEF ReapDelete, Gone, store

\* A new order has no copy yet.
LEMMA RecordMoves == ASSUME ~RefreshOn, IInv, Record PROVE UNCHANGED Ph
<1>1. order.dep = NoId
  BY DEF Record, IInv, Rest, OrderShape, NoOrderPcs
<1>2. order'.dep = NoId
  BY <1>1 DEF Record, NoOrder, Goto, GiveUp
<1> QED
  BY <1>1, <1>2, SamePhases DEF Steady, Named, Record, Goto, GiveUp, cloud

\* Every step of Renewal is a move of CloudCopies, or moves nothing.
LEMMA StepMoves == ASSUME ~RefreshOn, IInv, [Next]_vars PROVE Copies!Next \/ UNCHANGED Ph
BY SamePhases, HandWriters, RegisterWriters, UploadMoves, AnchorMoves, CrashMoves, DropMoves,
   CommitMoves, ReapMoves, RecordMoves DEF Named

\* Before anything is uploaded every copy is unused.
LEMMA InitMoves == ASSUME Init PROVE Copies!Init
BY DEF Init, Copies!Init, PhaseOf

\* The copies a renewal leaves in the account live the life CloudCopies
\* describes, whatever fails and wherever the process dies: only an anchored
\* copy becomes live, only a retired one is deleted, and none comes back.
THEOREM CopiesRefined == ASSUME ~RefreshOn PROVE Spec => ImplementsCloudCopies
<1>1. IInv /\ [Next]_vars => [Copies!Next]_Ph
  BY StepMoves
<1>2. Init => Copies!Init
  BY InitMoves
<1>3. Spec => [][Copies!Next]_Ph
  BY <1>1, Inductive, PTL DEF Spec
<1> QED
  BY <1>2, <1>3, PTL DEF Spec, ImplementsCloudCopies, Copies!Spec, Ph


-----------------------------------------------------------------------------
(* What listeners serve, in a steady setting: Serving is inductive on top  *)
(* of IInv, one lemma per part of it.                                      *)

\* What the lemmas below use of the invariant so far.
LEMMA Ground ==
    ASSUME IInv
    PROVE  /\ pass \in PassType /\ pass.st \in RowType /\ row \in RowType
           /\ order \in OrderType /\ task \in TaskType /\ InHand
           /\ ca = [n \in Certs |-> ca[n]] /\ placed \in Nat /\ desired \in Configs
           /\ row.dep \in Ids \cup {NoId} /\ order.dep \in Ids \cup {NoId}
           /\ row.cert \in Nat /\ order.n \in Nat
           /\ pass.new \in Ids \cup {NoId}
           /\ PassCopy /\ OrderShape /\ CopyShape /\ HandShape
           /\ \A l \in Listeners : bound[l] \in Ids \cup {NoId}
           /\ bound = [l \in Listeners |-> bound[l]]
BY Fields, Nats, CopyIds DEF IInv, Rest, TypeInv, TypeOK, AcmeType

\* The order's copy is not the row's: they were uploaded for different orders.
LEMMA Apart == ASSUME IInv, order.dep # NoId PROVE order.dep # row.dep /\ order.n # 0
BY Ground DEF CopyShape, OrderShape

\* An order with a copy stays valid and is never dropped.
LEMMA OrderSurvivesStep ==
    ASSUME SteadySetting, IInv, Serving, [Next]_vars PROVE OrderSurvives'
<1>g. /\ pass \in PassType /\ InHand /\ OrderShape /\ order \in OrderType /\ PassCopy
      /\ row.cert \in Nat /\ order.n \in Nat
  BY Ground
<1> USE DEF SteadySetting, Serving, OrderSurvives, PassType, SwitchPcs, EpiloguePcs
<1>1. CASE Begin
  BY <1>1, Ground DEF Begin, Blank, store, acme
<1>2. CASE BeginUnreadable \/ ConfirmBinding \/ RecordFailure \/ BackoffElapses
  BY <1>2, Ground DEF BeginUnreadable, ConfirmBinding, RecordFailure, BackoffElapses, Finish,
     acme, running
<1>3. CASE ReadOrder
  BY <1>3, Ground DEF ReadOrder, OrderIsDead, GiveUp, Goto, store, acme, DomainSets
<1>4. CASE Discard
  BY <1>4, Ground DEF Discard, ChooseOrphan, Goto, acme
<1>5. CASE DropOrder
  <2>1. pass.then \in {"decide", "fail", "idle"}
    BY <1>5, <1>g DEF DropOrder, InHand
  <2>2. /\ pc' \in {"decide", "fail", "idle"} /\ UNCHANGED ca
        /\ pc' # "idle" => pass'.cfg = pass.cfg /\ pc # "idle"
        /\ UNCHANGED order \/ order' = NoOrder
    BY <1>5, <1>g, <2>1 DEF DropOrder, OrderDropped, DropFails, GiveUp, Goto, Finish, acme
  <2> QED
    BY <2>2 DEF NoOrder
<1>6. CASE Decide
  BY <1>6, Ground DEF Decide, Goto, Finish, store, acme
<1>7. CASE Issue
  BY <1>7, Ground DEF Issue, Goto, GiveUp, store, OrderShape, NoOrderPcs
<1>8. CASE Record
  BY <1>8, <1>g DEF Record, Goto, GiveUp, acme, NoOrder, DomainSets, OrderShape, NoOrderPcs
<1>9. CASE FetchFails
  BY <1>9 DEF FetchFails
<1>10. CASE Advance
  BY <1>10, Ground DEF Advance, Goto, GiveUp, store, acme
<1>11. CASE Solve
  BY <1>11, Ground DEF Solve, Goto, GiveUp, store, running, OrderType
<1>12. CASE Download
  BY <1>12, <1>g DEF PassCopy, Download, Goto, GiveUp, store, acme, OrderShape, OrderPcs
<1>13. CASE Upload \/ Anchor
  BY <1>13, Ground DEF Upload, Anchor, Goto, GiveUp, store, acme, OrderType
<1>14. CASE Switch \/ AwaitSwitch \/ AwaitAdopted
  BY <1>14, Ground DEF Switch, AwaitSwitch, AwaitAdopted, SwitchDone, SwitchError, Goto, store,
     acme
<1>15. CASE EnumerateNew \/ EnumerateOld
  BY <1>15, Ground DEF EnumerateNew, EnumerateOld, AfterNewEnumerated, Verdict, Goto, GiveUp,
     store, acme, HandShape
<1>16. CASE Promote
  BY <1>16, Ground DEF Promote, ChooseOrphan, Goto, acme
<1>17. CASE Commit
  BY <1>17, Ground DEF Commit, NoOrder, Goto, GiveUp, Finish, acme
<1>18. CASE ReapStep \/ TaskStep \/ OperatorStep
  BY <1>18, Ground DEF ReapStep, ReapDelete, ReapForget, TaskStep, OperatorStep, Bind, Unbind,
     Edit, store, acme, running
<1>19. CASE CADecides
  BY <1>19, Ground DEF CADecides, store, running
<1>20. CASE OrderExpires
  BY <1>20 DEF OrderExpires
<1>21. CASE Restart \/ Crash
  BY <1>21, Ground DEF Restart, Crash, Stop, Finish, store, acme
<1>22. CASE UNCHANGED vars
  BY <1>22 DEF vars
<1> QED
  BY <1>1, <1>2, <1>3, <1>4, <1>5, <1>6, <1>7, <1>8, <1>9, <1>10, <1>11, <1>12, <1>13, <1>14,
     <1>15, <1>16, <1>17, <1>18, <1>19, <1>20, <1>21, <1>22, NoRefreshStep
     DEF Next, PassStep, ReapStep, CloudStep, ClockStep


\* No step but the two that mean to changes the ids the rows name.
LEMMA NamesKept ==
    ASSUME SteadySetting, IInv, Serving, [Next]_vars
    PROVE  (row'.dep = row.dep /\ order'.dep = order.dep) \/ Anchor \/ Commit
<1>1. CASE Record
  <2>1. order.dep = NoId
    BY <1>1, Ground DEF Record, OrderShape, NoOrderPcs
  <2> QED
    BY <1>1, <2>1 DEF Record, NoOrder, Goto, GiveUp
<1>2. CASE DropOrder
  BY <1>2 DEF DropOrder, OrderDropped, DropFails, NoOrder, Serving, OrderSurvives
<1>3. CASE ReapForget
  BY <1>3 DEF ReapForget
<1> QED
  BY <1>1, <1>2, <1>3, RegisterWriters DEF SteadySetting

\* The steps that move a binding or the task, or start to wait for the task.
LEMMA SwitchWriters ==
    ASSUME SteadySetting, IInv, [Next]_vars
    PROVE  \/ /\ UNCHANGED <<bound, task>>
              /\ pc' \in {"wait", "adopt"} => pc' = pc
           \/ Switch \/ AwaitSwitch \/ AwaitAdopted \/ TaskStep \/ Bind \/ Unbind
<1>1. CASE Begin \/ BeginUnreadable \/ ReadOrder \/ Discard
  BY <1>1 DEF Begin, BeginUnreadable, ReadOrder, Discard, ChooseOrphan, Goto, GiveUp, cloud,
     running
<1>2. CASE DropOrder
  <2>1. pass.then \in {"decide", "fail", "idle"}
    BY <1>2, Fields DEF DropOrder, InHand, PassType
  <2> QED
    BY <1>2, <2>1 DEF DropOrder, OrderDropped, DropFails, Goto, GiveUp, Finish, cloud
<1>3. CASE ConfirmBinding \/ Decide \/ Issue \/ Record
  BY <1>3 DEF ConfirmBinding, Decide, Issue, Record, Goto, GiveUp, Finish, cloud
<1>4. CASE FetchFails \/ Advance \/ Solve \/ Download \/ Upload \/ Anchor
  BY <1>4 DEF FetchFails, Advance, Solve, Download, Upload, Anchor, Goto, GiveUp, cloud,
     running
<1>5. CASE EnumerateNew \/ EnumerateOld
  BY <1>5 DEF EnumerateNew, EnumerateOld, AfterNewEnumerated, Verdict, Goto, GiveUp, cloud
<1>6. CASE Promote \/ Commit \/ RecordFailure
  BY <1>6 DEF Promote, ChooseOrphan, Commit, RecordFailure, Goto, GiveUp, Finish, cloud
<1>7. CASE ReapStep \/ CADecides \/ Edit \/ ClockStep
  BY <1>7 DEF ReapStep, ReapDelete, ReapForget, CADecides, Edit, ClockStep, OrderExpires,
     BackoffElapses, cloud, running
<1>8. CASE Restart \/ Crash \/ UNCHANGED vars
  BY <1>8 DEF Restart, Crash, Stop, Finish, cloud, vars
<1> QED
  BY <1>1, <1>2, <1>3, <1>4, <1>5, <1>6, <1>7, <1>8, NoRefreshStep
     DEF SteadySetting, Next, PassStep, CloudStep, OperatorStep

\* A running task's target is the order's copy, and that is not the row's.
LEMMA TaskTarget ==
    ASSUME IInv, Serving, InProgress(task)
    PROVE  /\ task.from = row.dep /\ task.to = order.dep
           /\ order.dep # NoId /\ order.dep # row.dep
BY Apart, Fields DEF Serving, TaskMovesTheRow, InHand

\* Where the pass promotes an upload no task is running.
LEMMA CommitIsQuiet ==
    ASSUME SteadySetting, IInv, Serving, pc = "commit"
    PROVE  /\ ~InProgress(task)
           /\ pass.out # "first" => BoundTo(row.dep) = {}
           /\ pass.out = "first" => row.dep = NoId /\ ~Retires
           /\ pass.new = order.dep /\ pass.new # NoId /\ pass.st.dep = row.dep
           /\ pass.orphan = NoId
<1>1. /\ pass.out # "off" /\ pass.new = order.dep /\ pass.new # NoId
      /\ pass.st.dep = row.dep /\ pass.orphan = NoId
      /\ pass.out = "first" => row.dep = NoId
  BY Ground DEF HandShape, EpiloguePcs, PassCopy, Serving, OrderSurvives
<1>2. pass.out # "first" => BoundTo(row.dep) = {}
  BY DEF Serving, SwitchedOff, SwitchBehind, EpiloguePcs
<1>3. ~InProgress(task)
  BY <1>1, <1>2 DEF Serving, TaskMovesTheRow, InProgress
<1> QED
  BY <1>1, <1>2, <1>3 DEF Retires

\* The switch task keeps moving the row's copy to the order's.
LEMMA TaskMovesStep ==
    ASSUME SteadySetting, IInv, Serving, [Next]_vars PROVE TaskMovesTheRow'
<1>t. TaskMovesTheRow /\ task \in TaskType /\ NoTask.todo = {}
  BY Fields DEF Serving, NoTask
<1>1. CASE Switch
  <2>1. /\ pc = "switch" /\ pass.st.dep = row.dep /\ pass.new = order.dep
        /\ UNCHANGED <<row, order, bound>>
    BY <1>1, Ground DEF Switch, PassCopy, HandShape, SwitchPcs, store
  <2>2. CASE UNCHANGED task /\ (InProgress(task) \/ pc' \notin {"wait", "adopt"})
    BY <1>t, <2>1, <2>2 DEF TaskMovesTheRow, InProgress, BoundTo
  <2>3. CASE /\ task' = [from |-> pass.st.dep, to |-> pass.new,
                         todo |-> BoundTo(pass.st.dep), failed |-> FALSE]
             /\ pass.st.dep # NoId
    BY <2>1, <2>3 DEF TaskMovesTheRow, BoundTo
  <2> QED
    BY <1>1, <2>2, <2>3 DEF Switch, SwitchError, Goto
<1>2. CASE AwaitSwitch \/ AwaitAdopted
  <2>1. /\ pc' \notin {"wait", "adopt"} /\ UNCHANGED <<row, order, bound>>
        /\ task' = task \/ task' = NoTask
    BY <1>2 DEF AwaitSwitch, AwaitAdopted, SwitchDone, SwitchError, store
  <2> QED
    BY <1>t, <2>1 DEF TaskMovesTheRow, InProgress, BoundTo
<1>3. CASE TaskStep
  <2>1. PICK l \in task.todo :
             \/ /\ bound[l] = task.from /\ bound' = [bound EXCEPT ![l] = task.to]
                /\ task' = [task EXCEPT !.todo = @ \ {l}]
             \/ /\ task' = [task EXCEPT !.todo = @ \ {l}, !.failed = TRUE]
                /\ UNCHANGED bound
    BY <1>3 DEF TaskStep
  <2>2. /\ task'.from = task.from /\ task'.to = task.to /\ task'.todo = task.todo \ {l}
        /\ UNCHANGED <<row, order>> /\ l \in Listeners
        /\ task'.failed \/ (task'.failed = task.failed /\ bound' = [bound EXCEPT ![l] = task.to])
    BY <1>3, <1>t, <2>1 DEF TaskStep, TaskType, store
  <2>3. InProgress(task)
    BY <2>1 DEF InProgress
  <2>4. \A m \in Listeners \ {l} : bound'[m] = bound[m]
    BY <2>1, Ground
  <2>5. bound' = [bound EXCEPT ![l] = task.to] => bound'[l] # row.dep
    BY <2>2, <2>3, TaskTarget, Ground
  <2> QED
    BY <1>t, <2>2, <2>3, <2>4, <2>5, TaskTarget DEF TaskMovesTheRow, BoundTo
<1>4. CASE Bind \/ Unbind
  BY <1>4 DEF Bind, Unbind, OperatorMayAct, SteadySetting, TaskMovesTheRow, InProgress, running
<1>5. CASE Anchor
  <2>1. order.dep = NoId /\ pc' \notin {"wait", "adopt"} /\ UNCHANGED task
    BY <1>5, Ground DEF Anchor, HandShape, Goto, GiveUp, cloud
  <2> QED
    BY <2>1, TaskTarget DEF TaskMovesTheRow, InProgress
<1>6. CASE Commit
  <2>1. pc = "commit" /\ pc' \notin {"wait", "adopt"} /\ UNCHANGED task
    BY <1>6 DEF Commit, Goto, GiveUp, Finish, cloud
  <2> QED
    BY <2>1, CommitIsQuiet DEF TaskMovesTheRow, InProgress
<1>7. CASE /\ UNCHANGED <<bound, task>> /\ row'.dep = row.dep /\ order'.dep = order.dep
           /\ pc' \in {"wait", "adopt"} => pc' = pc
  BY <1>t, <1>7 DEF TaskMovesTheRow, InProgress, BoundTo
<1> QED
  BY <1>1, <1>2, <1>3, <1>4, <1>5, <1>6, <1>7, NamesKept, SwitchWriters


\* A pass that has the switch behind it keeps finding the old copy unused.
LEMMA SwitchedOffStep ==
    ASSUME SteadySetting, IInv, Serving, [Next]_vars PROVE SwitchedOff'
<1>g. /\ pass \in PassType /\ PassCopy /\ HandShape
      /\ SwitchedOff /\ TaskMovesTheRow /\ OrderSurvives
  BY Ground DEF Serving
<1>1. CASE Switch
  <2>1. ~SwitchBehind'
    BY <1>1, <1>g DEF Switch, SwitchError, Goto, PassType, SwitchBehind, EpiloguePcs
  <2> QED
    BY <2>1 DEF SwitchedOff
<1>2. CASE AwaitSwitch \/ AwaitAdopted
  <2>1. /\ pc \in {"wait", "adopt"} /\ UNCHANGED <<row, bound>>
        /\ SwitchBehind' => TaskSucceeded
    BY <1>2, <1>g DEF AwaitSwitch, AwaitAdopted, SwitchDone, SwitchError, PassType,
       SwitchBehind, EpiloguePcs, store
  <2>2. TaskSucceeded => BoundTo(row.dep) = {}
    BY <1>g, <2>1 DEF TaskMovesTheRow, TaskSucceeded, InProgress
  <2> QED
    BY <2>1, <2>2 DEF SwitchedOff, BoundTo
<1>3. CASE EnumerateNew \/ EnumerateOld
  <2>1. /\ UNCHANGED <<row, bound>> /\ pass.st.dep = row.dep
        /\ SwitchBehind' => SwitchBehind \/ BoundTo(pass.st.dep) = {}
    BY <1>3, <1>g DEF EnumerateNew, EnumerateOld, AfterNewEnumerated, Verdict, Goto, GiveUp,
       PassType, PassCopy, SwitchBehind, EpiloguePcs, store, cloud
  <2> QED
    BY <1>g, <2>1 DEF SwitchedOff, BoundTo
<1>4. CASE Promote
  <2>1. UNCHANGED <<row, bound>> /\ (SwitchBehind' => SwitchBehind)
    BY <1>4, <1>g DEF Promote, ChooseOrphan, Goto, PassType, SwitchBehind, EpiloguePcs, cloud
  <2> QED
    BY <1>g, <2>1 DEF SwitchedOff, BoundTo
<1>5. CASE Download
  <2>1. ~SwitchBehind'
    BY <1>5, <1>g DEF Download, Goto, GiveUp, PassType, SwitchBehind, EpiloguePcs,
       OrderSurvives, SteadySetting
  <2> QED
    BY <2>1 DEF SwitchedOff
<1>6. CASE TaskStep
  <2>1. PICK l \in task.todo : bound' = [bound EXCEPT ![l] = task.to] \/ UNCHANGED bound
    BY <1>6 DEF TaskStep
  <2>2. UNCHANGED <<row, pc, pass>> /\ InProgress(task)
    BY <1>6, <2>1 DEF TaskStep, InProgress, store, running
  <2>3. BoundTo(row.dep)' \subseteq BoundTo(row.dep)
    <3>1. \A m \in Listeners \ {l} : bound'[m] = bound[m]
      BY <2>1, Ground
    <3>2. UNCHANGED bound \/ bound'[l] # row.dep \/ l \notin Listeners
      BY <2>1, <2>2, TaskTarget, Ground
    <3> QED
      BY <2>2, <3>1, <3>2 DEF BoundTo
  <2> QED
    BY <1>g, <2>2, <2>3 DEF SwitchedOff, SwitchBehind
<1>7. CASE Bind \/ Unbind
  <2>1. pc' = "idle"
    BY <1>7 DEF Bind, Unbind, OperatorMayAct, SteadySetting, running
  <2> QED
    BY <2>1 DEF SwitchedOff, SwitchBehind, EpiloguePcs
<1>8. CASE Begin \/ ReadOrder \/ Discard \/ Decide \/ Issue \/ Record \/ FetchFails \/ Advance
  <2>1. ~SwitchBehind'
    BY <1>8 DEF Begin, ReadOrder, Discard, ChooseOrphan, Decide, Issue, Record, FetchFails,
       Advance, Goto, GiveUp, Finish, SwitchBehind, EpiloguePcs
  <2> QED
    BY <2>1 DEF SwitchedOff
<1>9. CASE ConfirmBinding \/ Solve \/ Upload \/ Anchor \/ Commit \/ RecordFailure \/ Restart \/ Crash
  <2>1. ~SwitchBehind'
    BY <1>9, <1>g DEF ConfirmBinding, Solve, Upload, Anchor, Commit, RecordFailure, Restart,
       Crash, Stop, Goto, GiveUp, Finish, SwitchBehind, EpiloguePcs, running, PassType
  <2> QED
    BY <2>1 DEF SwitchedOff
<1>10. CASE DropOrder
  <2>1. pass.then \in {"decide", "fail", "idle"}
    BY <1>10, Fields DEF DropOrder, InHand, PassType
  <2>2. ~SwitchBehind'
    BY <1>10, <2>1 DEF DropOrder, OrderDropped, DropFails, Goto, GiveUp, Finish,
       SwitchBehind, EpiloguePcs
  <2> QED
    BY <2>2 DEF SwitchedOff
<1>11. CASE BeginUnreadable \/ ReapStep \/ CADecides \/ Edit \/ ClockStep \/ UNCHANGED vars
  <2>1. UNCHANGED <<pc, pass, bound>>
    BY <1>11 DEF BeginUnreadable, ReapStep, ReapDelete, ReapForget, CADecides, Edit, ClockStep,
       OrderExpires, BackoffElapses, cloud, running, vars
  <2>2. row'.dep = row.dep
    BY <1>11, Ground DEF BeginUnreadable, FailureColumns, ReapStep, ReapDelete, ReapForget,
       CADecides, Edit, ClockStep, OrderExpires, BackoffElapses, store, vars, RowType
  <2> QED
    BY <1>g, <2>1, <2>2 DEF SwitchedOff, SwitchBehind, BoundTo
<1> QED
  BY <1>1, <1>2, <1>3, <1>4, <1>5, <1>6, <1>7, <1>8, <1>9, <1>10, <1>11, NoRefreshStep
     DEF SteadySetting, Next, PassStep, CloudStep, OperatorStep

\* Listeners go from the row's copy to the order's, and the order's becomes the
\* row's when none is left behind.
LEMMA ServedByNameStep ==
    ASSUME SteadySetting, IInv, Serving, [Next]_vars PROVE ServedByName'
<1>g. ServedByName /\ order \in OrderType /\ bound = [l \in Listeners |-> bound[l]]
  BY Ground DEF Serving
<1>1. CASE Anchor
  <2>1. order.dep = NoId /\ UNCHANGED <<row, bound>>
    BY <1>1, Ground DEF Anchor, HandShape, cloud
  <2> QED
    BY <1>g, <2>1 DEF ServedByName
<1>2. CASE Commit
  <2>1. pc = "commit" /\ UNCHANGED bound
    BY <1>2 DEF Commit, cloud
  <2>2. CASE UNCHANGED <<row, order>>
    BY <1>g, <2>1, <2>2 DEF ServedByName
  <2>3. CASE row' = Promoted
    <3>1. row'.dep = order.dep
      BY <2>1, <2>3, CommitIsQuiet DEF Promoted
    <3>2. \A l \in Listeners : bound[l] = row.dep => row.dep = NoId
      BY <2>1, CommitIsQuiet DEF BoundTo
    <3> QED
      BY <1>g, <2>1, <3>1, <3>2 DEF ServedByName
  <2> QED
    BY <1>2, <2>2, <2>3 DEF Commit
<1>3. CASE TaskStep
  <2>1. PICK l \in task.todo : bound' = [bound EXCEPT ![l] = task.to] \/ UNCHANGED bound
    BY <1>3 DEF TaskStep
  <2>2. UNCHANGED <<row, order>> /\ task.to = order.dep
    BY <1>3, <2>1, TaskTarget DEF TaskStep, InProgress, store
  <2> QED
    BY <1>g, <2>1, <2>2 DEF ServedByName
<1>4. CASE Bind \/ Unbind
  BY <1>4, <1>g DEF Bind, Unbind, ServedByName, store
<1>5. CASE UNCHANGED bound /\ row'.dep = row.dep /\ order'.dep = order.dep
  BY <1>5, <1>g DEF ServedByName
<1>6. CASE Switch \/ AwaitSwitch \/ AwaitAdopted
  BY <1>6, <1>g DEF Switch, AwaitSwitch, AwaitAdopted, ServedByName, store
<1> QED
  BY <1>1, <1>2, <1>3, <1>4, <1>5, <1>6, NamesKept, SwitchWriters

\* Nothing is served before anything is uploaded.
LEMMA ServingInit == ASSUME Init PROVE Serving
BY OrdersAssumption DEF Init, Serving, OrderSurvives, TaskMovesTheRow, SwitchedOff,
   SwitchBehind, ServedByName, BlankRow, NoOrder, NoTask, InProgress, SwitchPcs, EpiloguePcs

\* Only a copy nothing serves is put on the reclaim list.
LEMMA RetiresTheUnserved ==
    ASSUME SteadySetting, IInv, Serving, [Next]_vars, NEW id \in retired' \ retired
    PROVE  BoundTo(id) = {}
<1>1. CASE Anchor
  <2>1. id = pass.new /\ pc = "anchor"
    BY <1>1 DEF Anchor, AddRetired
  <2>2. id # row.dep /\ id # NoId /\ order.dep = NoId
    BY <2>1, Ground DEF HandShape, CopyShape, OrderShape, OrderPcs, InHand
  <2> QED
    BY <2>2 DEF Serving, ServedByName, BoundTo
<1>2. CASE DropOrder
  <2>1. pass.orphan # NoId /\ pc = "drop"
    BY <1>2 DEF DropOrder, OrderDropped, DropFails, AddRetired
  <2> QED
    BY <2>1, Ground DEF HandShape, Serving, OrderSurvives
<1>3. CASE Commit
  <2>1. pc = "commit"
    BY <1>3 DEF Commit
  <2>2. Retires /\ id = row.dep
    BY <1>3, <2>1, CommitIsQuiet DEF Commit, AddRetired
  <2> QED
    BY <2>1, <2>2, CommitIsQuiet DEF Retires
<1>4. CASE Record \/ ReapForget
  BY <1>4 DEF Record, ReapForget
<1> QED
  BY <1>1, <1>2, <1>3, <1>4, RegisterWriters DEF SteadySetting

\* With one configuration that deploys, orders that live and an operator who
\* waits for the switch, every listener serves what the row or the order names,
\* and no step hands a copy in service to the reaper: whatever store call fails,
\* however a switch task ends and wherever the process dies.
THEOREM ServedAlwaysManaged == ASSUME SteadySetting PROVE Spec => ServedStaysManaged
<1> DEFINE Unserved == \A id \in retired' \ retired : BoundTo(id) = {}
<1>1. Init => Serving
  BY ServingInit
<1>2. IInv /\ Serving /\ [Next]_vars => Serving'
  BY OrderSurvivesStep, TaskMovesStep, SwitchedOffStep, ServedByNameStep DEF Serving
<1>3. IInv /\ Serving /\ [Next]_vars => Unserved
  BY RetiresTheUnserved
<1>4. Serving => \A l \in Listeners : bound[l] \in {row.dep, order.dep, NoId}
  BY DEF Serving, ServedByName
<1>5. ~RefreshOn
  BY DEF SteadySetting
<1>6. Spec => []IInv
  BY <1>5, Inductive
<1>7. Spec => [](IInv /\ Serving)
  BY <1>1, <1>2, <1>6, PTL DEF Spec
<1>8. Spec => [](\A l \in Listeners : bound[l] \in {row.dep, order.dep, NoId})
  BY <1>4, <1>7, PTL
<1>9. Spec => [][Unserved]_vars
  BY <1>3, <1>7, PTL DEF Spec
<1> QED
  BY <1>8, <1>9, PTL DEF ServedStaysManaged, RetireNeverMarksServing
=============================================================================
