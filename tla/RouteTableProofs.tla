-------------------------- MODULE RouteTableProofs --------------------------
(*****************************************************************************)
(* Theorems about RouteTable, for any number of tables, entries, keys and    *)
(* senders, with or without failing clones and lost start records; and that  *)
(* it implements RouteView: a sender routes with one complete set of routes, *)
(* whatever the collector does meanwhile.                                    *)
(*****************************************************************************)
EXTENDS RouteTableInv

-----------------------------------------------------------------------------
\* The remaining conjuncts are preserved.
LEMMA RestStep ==
  ASSUME PtrInv, MemInv, RestInv, [Next]_vars
  PROVE  RestInv'
<1>0. new # NIL => new \in Tbl /\ new # rtable
  BY DEF PtrInv, TablesAccounted
<1>1. CASE \E k \in Kinds : Start(k)
  <2>1. PICK k \in Kinds : Start(k)
    BY <1>1
  <2>2. /\ new' = NIL /\ kind' \in Kinds /\ ack' \in {"none", "ok", "err"}
        /\ pc' \in {"records", "drain", "clone", "crashed"}
        /\ UNCHANGED <<updates, flag, seed, ready>>
    BY <2>1 DEF Start, DropNew, RestInv
  <2>3. me' \in [Tbl -> [Meid -> Owner \cup {NIL}]] /\ err' \subseteq Tbl /\ val' = val
    <3>1. CASE new = NIL
      BY <2>1, <3>1 DEF Start, tableVars, RestInv
    <3>2. CASE new # NIL
      BY <2>1, <3>2, <1>0 DEF Start, DropNew, Purge, NoOwners, RestInv
    <3>q. QED
      BY <3>1, <3>2
  <2>q. QED
    BY <2>2, <2>3 DEF RestInv
<1>2. CASE Drain
  <2>1. new' = NIL /\ rt \in Tbl
    BY <1>2 DEF Drain, PtrInv
  <2>q. QED
    BY <1>2, <2>1 DEF Drain, Purge, NoOwners, RestInv
<1>3. CASE Clone
  <2>1. PICK t \in Tbl, copied \in SUBSET Wanted :
          /\ Target(t) /\ CloneInto(t, copied) /\ new' = t
          /\ err' = IF copied = Wanted THEN err ELSE err \cup {t}
    BY <1>3 DEF Clone
  <2>2. /\ UNCHANGED <<rtable, flag, seed, ready, ack, kind, val>>
        /\ updates' = 0 /\ pc' = "records"
    BY <1>3, <2>1 DEF Clone, CloneInto
  <2>3. /\ me' \in [Tbl -> [Meid -> Owner \cup {NIL}]]
        /\ "me" \in copied => me'[t] = me'[rtable]
    BY <2>1 DEF CloneInto, RestInv, PtrInv
  <2>4. "mt" \in copied => ent'[t] = ent'[rtable]
    BY <2>1 DEF CloneInto, MemInv, PtrInv
  <2>5. t \notin err' => copied = Wanted
    BY <2>1
  <2>6. /\ new' \notin err' /\ kind = "newrt" => me'[new'] = me'[rtable]
        /\ new' \notin err' /\ kind = "meid" => ent'[new'] = ent'[rtable]
    BY <2>1, <2>3, <2>4, <2>5 DEF Wanted
  <2>7. err' \subseteq Tbl
    BY <2>1 DEF RestInv
  <2>q. QED
    BY <2>2, <2>3, <2>6, <2>7, MaxUpdatesAssumption DEF RestInv
<1>4. CASE \E k \in Key, r \in Rte, v \in Val : AddRte(k, r, v)
  <2>1. PICK k \in Key, r \in Rte, v \in Val : AddRte(k, r, v)
    BY <1>4
  <2>2. val' \in [Rte -> Val] /\ UNCHANGED me
    BY <2>1 DEF AddRte, RestInv
  <2>3. Record({"newrt", "update"})
    BY <2>1 DEF AddRte
  <2>q. QED
    BY <2>2, <2>3, MaxUpdatesAssumption DEF Record, RestInv, Kinds
<1>5. CASE \E k \in Key : DelRte(k)
  <2>1. Record({"newrt", "update"}) /\ UNCHANGED <<val, me>>
    BY <1>5 DEF DelRte
  <2>q. QED
    BY <2>1, MaxUpdatesAssumption DEF Record, RestInv, Kinds
<1>6. CASE SkipRecord
  <2>1. Record({"newrt", "update"}) /\ UNCHANGED <<val, me>>
    BY <1>6 DEF SkipRecord
  <2>q. QED
    BY <2>1, MaxUpdatesAssumption DEF Record, RestInv, Kinds
<1>7. CASE \E m \in Meid, o \in Owner \cup {NIL} : SetMeid(m, o)
  <2>1. PICK m \in Meid, o \in Owner \cup {NIL} : SetMeid(m, o)
    BY <1>7
  <2>2. Record({"meid"}) /\ UNCHANGED <<val, ent>>
    BY <2>1 DEF SetMeid
  <2>3. me' \in [Tbl -> [Meid -> Owner \cup {NIL}]]
    BY <2>1, <2>2, <1>0 DEF SetMeid, Record, RestInv
  <2>q. QED
    BY <2>2, <2>3, MaxUpdatesAssumption DEF Record, RestInv, Kinds
<1>8. CASE End
  BY <1>8 DEF End, Roll, tableVars, RestInv
<1>9. CASE EndMismatch
  BY <1>9, <1>0 DEF EndMismatch, DropNew, Purge, NoOwners, RestInv
<1>10. CASE EndLost
  BY <1>10 DEF EndLost, tableVars, RestInv
<1>11. CASE SeedRead
  BY <1>11 DEF SeedRead, tableVars, RestInv
<1>12. CASE UNCHANGED ctxVars
  BY <1>12 DEF ctxVars, tableVars, RestInv
<1>13. (\E s \in Senders : Sender(s)) \/ UNCHANGED vars => UNCHANGED ctxVars
  BY DEF Sender, GetRt, GetRte, ReleaseRt, vars
<1>q. QED
  BY <1>1, <1>2, <1>3, <1>4, <1>5, <1>6, <1>7, <1>8, <1>9, <1>10, <1>11, <1>12, <1>13 DEF Next, Collector

-----------------------------------------------------------------------------
(* Theorems.                                                               *)

\* IInv holds initially: rmr_init makes one empty table.
LEMMA InitInv == Init => IInv
<1>1. SUFFICES ASSUME Init PROVE IInv
  OBVIOUS
<1>2. PtrInv
  BY <1>1, NilAssumption DEF Init, PtrInv, TablesAccounted
<1>3. HoldInv
  <2>1. \A t \in Tbl : {s \in Senders : held[s] = t} = {}
    BY <1>1, NilAssumption DEF Init
  <2>2. CountsHolders
    BY <1>1, <2>1, FS_EmptySet DEF Init, CountsHolders
  <2>q. QED
    BY <1>1, <2>2, NilAssumption DEF Init, HoldInv, HeldIsStable
<1>4. MemInv
  <2>1. \A r \in Rte : {t \in live : In(r, t)} = {}
    BY <1>1, NilAssumption DEF Init, In, NoEnts
  <2>2. RefsExact
    BY <1>1, <2>1, FS_EmptySet DEF Init, RefsExact
  <2>q. QED
    BY <1>1, <2>2, NilAssumption DEF Init, MemInv, NoEnts
<1>5. RestInv
  BY <1>1, NilAssumption, MaxUpdatesAssumption DEF Init, RestInv, Kinds, NoOwners
<1>q. QED
  BY <1>2, <1>3, <1>4, <1>5 DEF IInv

\* IInv is inductive, so it holds in every reachable state.
LEMMA AlwaysInv == Spec => []IInv
<1>1. IInv /\ [Next]_vars => IInv'
  BY PtrStep, HoldStep, MemStep, RestStep DEF IInv
<1>q. QED
  BY InitInv, <1>1, PTL DEF Spec

\* Every variable keeps its type: in particular no rte->refs goes below zero.
THEOREM TypeCorrect == Spec => []TypeOK
<1>1. IInv => TypeOK
  BY DEF IInv, PtrInv, HoldInv, MemInv, RestInv, TypeOK
<1>q. QED
  BY AlwaysInv, <1>1, PTL

\* No table is leaked, freed twice, or active and under construction at once.
THEOREM TablesAccountedHolds == Spec => []TablesAccounted
<1>1. IInv => TablesAccounted
  BY DEF IInv, PtrInv
<1>q. QED
  BY AlwaysInv, <1>1, PTL

\* A table is not freed, emptied or refilled between get_rt and release_rt.
THEOREM HeldIsStableHolds == Spec => []HeldIsStable
<1>1. IInv => HeldIsStable
  BY DEF IInv, HoldInv
<1>q. QED
  BY AlwaysInv, <1>1, PTL

\* ref_count counts the threads between get_rt and release_rt.
THEOREM CountsHoldersHolds == Spec => []CountsHolders
<1>1. IInv => CountsHolders
  BY DEF IInv, HoldInv
<1>q. QED
  BY AlwaysInv, <1>1, PTL

\* rte->refs is the number of tables the entry is in.
THEOREM RefsExactHolds == Spec => []RefsExact
<1>1. IInv => RefsExact
  BY DEF IInv, MemInv
<1>q. QED
  BY AlwaysInv, <1>1, PTL

\* del_rte never frees an entry a sender works with.
THEOREM EntryInUseHolds == Spec => []EntryInUse
<1>1. IInv => EntryInUse
  <2>1. SUFFICES ASSUME IInv, NEW s \in Senders, use[s] # NIL
                 PROVE  refs[use[s]] > 0
    BY DEF EntryInUse
  <2>2. use[s] \in Rte /\ held[s] \in Users(use[s])
    BY <2>1 DEF IInv, MemInv, HoldInv, HeldIsStable, Users
  <2>3. PtrInv /\ RefsExact
    BY <2>1 DEF IInv, MemInv
  <2>4. refs[use[s]] \in Nat \ {0}
    BY <2>2, <2>3, UsersChange
  <2>5. \A n \in Nat \ {0} : n > 0
    OBVIOUS
  <2>q. QED
    BY <2>4, <2>5, Zenon
<1>q. QED
  BY AlwaysInv, <1>1, PTL

\* roll_tables loses neither the managed entities nor, for a meid map, the
\* routes.
THEOREM OtherSpaceKeptHolds == Spec => OtherSpaceKept
<1>1. ASSUME IInv, [Next]_vars, rtable' # rtable
      PROVE  /\ kind = "newrt" => me'[rtable'] = me[rtable]
             /\ kind = "meid" => ent'[rtable'] = ent[rtable]
  <2>1. ASSUME NEW s \in Senders PROVE ~Sender(s)
    BY <1>1 DEF Sender, GetRt, GetRte, ReleaseRt, ctxVars
  <2>2. ~(\E k \in Kinds : Start(k)) /\ ~Drain /\ ~Clone
    BY <1>1 DEF Start, Drain, Clone
  <2>3. /\ ~(\E k \in Key, r \in Rte, v \in Val : AddRte(k, r, v))
        /\ ~(\E k \in Key : DelRte(k)) /\ ~SkipRecord
        /\ ~(\E m \in Meid, o \in Owner \cup {NIL} : SetMeid(m, o))
    BY <1>1 DEF AddRte, DelRte, SkipRecord, SetMeid, Record
  <2>4. ~EndMismatch /\ ~EndLost /\ ~SeedRead /\ ~UNCHANGED vars
    BY <1>1 DEF EndMismatch, EndLost, SeedRead, vars, ctxVars
  <2>5. End
    BY <1>1, <2>1, <2>2, <2>3, <2>4 DEF Next, Collector
  <2>q. QED
    BY <1>1, <2>5 DEF End, Roll, tableVars, IInv, RestInv
<1>q. QED
  BY AlwaysInv, <1>1, PTL DEF Spec, OtherSpaceKept

-----------------------------------------------------------------------------
\* What table t says is the same before and after the step.
Kept(t) ==
  /\ ent'[t] = ent[t]
  /\ me'[t] = me[t]
  /\ \A k \in Key : ent[t][k] # NIL => val'[ent[t][k]] = val[ent[t][k]]

\* No step of the collector changes the active table or one that is held.
LEMMA CollectorKeeps ==
  ASSUME IInv, Collector, NEW t \in Tbl,
         t = rtable \/ \E s \in Senders : held[s] = t
  PROVE  Kept(t) /\ t \in live
<1>p. t \in live /\ t # new /\ (t = rt => pc = "drain" /\ t # rtable)
  BY NilAssumption DEF IInv, PtrInv, TablesAccounted, HoldInv, HeldIsStable
<1>1. CASE \E k \in Kinds : Start(k)
  BY <1>1, <1>p, NilAssumption DEF Start, DropNew, Purge, tableVars, Kept, IInv, PtrInv, TablesAccounted, RestInv, MemInv
<1>2. CASE Drain
  <2>1. Holders(rt) = {}
    BY <1>2, HoldersFinite DEF Drain, IInv, HoldInv, CountsHolders, Holders, PtrInv
  <2>2. t # rt
    BY <2>1, <1>p DEF Holders
  <2>q. QED
    BY <1>2, <1>p, <2>2 DEF Drain, Purge, Kept, IInv, MemInv, RestInv
<1>3. CASE Clone
  <2>1. PICK u \in Tbl, copied \in SUBSET Wanted : Target(u) /\ CloneInto(u, copied)
    BY <1>3 DEF Clone
  <2>2. t # u
    BY <1>3, <1>p, <2>1, NilAssumption DEF Clone, Target
  <2>3. ent'[t] = ent[t] /\ me'[t] = me[t] /\ val' = val /\ t \in live'
    BY <1>p, <2>1, <2>2 DEF CloneInto, IInv, MemInv, RestInv
  <2>q. QED
    BY <1>p, <2>3 DEF Kept
<1>4. CASE \E k \in Key, r \in Rte, v \in Val : AddRte(k, r, v)
  <2>1. PICK k \in Key, r \in Rte, v \in Val : AddRte(k, r, v)
    BY <1>4
  <2>2. Users(r) = {}
    BY <2>1, UsersChange, UsersFinite DEF AddRte, IInv, MemInv
  <2>3. \A j \in Key : ent[t][j] # r
    BY <2>2, <1>p DEF Users, In
  <2>q. QED
    <3>1. /\ ent' = [ent EXCEPT ![new][k] = r] /\ val' = [val EXCEPT ![r] = v]
          /\ UNCHANGED <<me, live>>
      BY <2>1 DEF AddRte, Record
    <3>2. ent'[t] = ent[t] /\ \A q \in Rte : q # r => val'[q] = val[q]
      BY <1>p, <3>1 DEF IInv, MemInv, RestInv
    <3>3. \A j \in Key : ent[t][j] \in Rte \cup {NIL}
      BY DEF IInv, MemInv
    <3>q. QED
      BY <1>p, <2>3, <3>1, <3>2, <3>3 DEF Kept
<1>5. CASE \E k \in Key : DelRte(k)
  <2>1. PICK k \in Key : DelRte(k)
    BY <1>5
  <2>2. ent' = [ent EXCEPT ![new][k] = NIL] /\ UNCHANGED <<me, val, live>>
    BY <2>1 DEF DelRte, Record
  <2>3. ent'[t] = ent[t]
    BY <1>p, <2>2 DEF IInv, MemInv
  <2>q. QED
    BY <1>p, <2>2, <2>3 DEF Kept
<1>6. CASE SkipRecord
  <2>1. UNCHANGED <<ent, me, val, live>>
    BY <1>6 DEF SkipRecord, Record
  <2>q. QED
    BY <1>p, <2>1 DEF Kept
<1>7. CASE \E m \in Meid, o \in Owner \cup {NIL} : SetMeid(m, o)
  <2>1. PICK m \in Meid, o \in Owner \cup {NIL} : SetMeid(m, o)
    BY <1>7
  <2>2. me' = [me EXCEPT ![new][m] = o] /\ UNCHANGED <<ent, val, live>>
    BY <2>1 DEF SetMeid, Record
  <2>3. me'[t] = me[t]
    BY <1>p, <2>2 DEF IInv, RestInv
  <2>q. QED
    BY <1>p, <2>2, <2>3 DEF Kept
<1>8. CASE End
  <2>1. UNCHANGED <<ent, me, val, live>>
    BY <1>8 DEF End, Roll, tableVars
  <2>q. QED
    BY <1>p, <2>1 DEF Kept
<1>9. CASE EndMismatch
  BY <1>9, <1>p, NilAssumption DEF EndMismatch, DropNew, Purge, tableVars, Kept, IInv, PtrInv, TablesAccounted, RestInv, MemInv
<1>10. CASE EndLost
  <2>1. UNCHANGED <<ent, me, val, live>>
    BY <1>10 DEF EndLost, tableVars
  <2>q. QED
    BY <1>p, <2>1 DEF Kept
<1>11. CASE SeedRead
  <2>1. UNCHANGED <<ent, me, val, live>>
    BY <1>11 DEF SeedRead, tableVars
  <2>q. QED
    BY <1>p, <2>1 DEF Kept
<1>q. QED
  BY <1>p, <1>1, <1>2, <1>3, <1>4, <1>5, <1>6, <1>7, <1>8, <1>9, <1>10, <1>11 DEF Collector

\* A table that is kept has the same routes.
LEMMA KeptContent ==
  ASSUME NEW t, Kept(t)
  PROVE  Content(t)' = Content(t)
<1>1. \A k \in Key : (IF ent'[t][k] = NIL THEN NIL ELSE val'[ent'[t][k]])
                      = (IF ent[t][k] = NIL THEN NIL ELSE val[ent[t][k]])
  BY DEF Kept
<1>2. [k \in Key |-> IF ent'[t][k] = NIL THEN NIL ELSE val'[ent'[t][k]]]
       = [k \in Key |-> IF ent[t][k] = NIL THEN NIL ELSE val[ent[t][k]]]
  BY <1>1
<1>q. QED
  BY <1>2 DEF Content, Kept

\* What a table says is a set of routes, and so is not NIL.
LEMMA ContentType ==
  ASSUME TypeOK, NEW t \in Tbl
  PROVE  Content(t) \in View!Routes /\ Content(t) # NIL
<1>1. [k \in Key |-> IF ent[t][k] = NIL THEN NIL ELSE val[ent[t][k]]]
        \in [Key -> Val \cup {NIL}]
  BY DEF TypeOK
<1>2. me[t] \in [Meid -> Owner \cup {NIL}]
  BY DEF TypeOK
<1>3. Content(t) \in View!Routes
  BY <1>1, <1>2 DEF Content, View!Routes
<1>q. QED
  BY <1>3, NilIsNoRoutes DEF View!Routes

\* A step of the collector installs routes and leaves the senders' alone.
LEMMA CollectorInstalls ==
  ASSUME IInv, TypeOK, TypeOK', Collector
  PROVE  View!Install
<1>1. UNCHANGED <<held, use>>
  BY DEF Collector, Start, Drain, Clone, AddRte, DelRte, SkipRecord, SetMeid, Record, End,
     EndMismatch, EndLost, SeedRead, senderVars
<1>2. \A s \in Senders : held[s] # NIL => Content(held[s])' = Content(held[s])
  <2>1. SUFFICES ASSUME NEW s \in Senders, held[s] # NIL
                 PROVE  Content(held[s])' = Content(held[s])
    OBVIOUS
  <2>2. PICK t \in Tbl : t = held[s]
    BY <2>1 DEF TypeOK
  <2>3. Kept(t)
    BY <2>2, CollectorKeeps
  <2>4. Content(t)' = Content(t)
    BY <2>3, KeptContent
  <2>q. QED
    BY <2>2, <2>4, <1>1 DEF Content
<1>3. \A s \in Senders : use[s] # NIL => val'[use[s]] = val[use[s]]
  <2>1. SUFFICES ASSUME NEW s \in Senders, use[s] # NIL
                 PROVE  val'[use[s]] = val[use[s]]
    OBVIOUS
  <2>2. PICK t \in Tbl : t = held[s]
    BY <2>1 DEF TypeOK, IInv, MemInv
  <2>3. Kept(t)
    BY <2>2, CollectorKeeps
  <2>4. In(use[s], t)
    BY <2>1, <2>2 DEF IInv, MemInv
  <2>q. QED
    BY <2>1, <2>3, <2>4 DEF In, Kept
<1>4. [s \in Senders |-> IF held[s] = NIL THEN NIL ELSE Content(held[s])]'
       = [s \in Senders |-> IF held[s] = NIL THEN NIL ELSE Content(held[s])]
  <2>1. \A s \in Senders : (IF held[s] = NIL THEN NIL ELSE Content(held[s]))'
                            = (IF held[s] = NIL THEN NIL ELSE Content(held[s]))
    BY <1>1, <1>2
  <2>q. QED
    BY <2>1
<1>5. [s \in Senders |-> IF use[s] = NIL THEN NIL ELSE val[use[s]]]'
       = [s \in Senders |-> IF use[s] = NIL THEN NIL ELSE val[use[s]]]
  BY <1>1, <1>3
<1>6. Content(rtable)' \in View!Routes
  <2>1. PICK t \in Tbl : t = rtable'
    BY DEF TypeOK
  <2>2. [k \in Key |-> IF ent'[t][k] = NIL THEN NIL ELSE val'[ent'[t][k]]]
          \in [Key -> Val \cup {NIL}]
    BY DEF TypeOK
  <2>3. me'[t] \in [Meid -> Owner \cup {NIL}]
    BY DEF TypeOK
  <2>q. QED
    BY <2>1, <2>2, <2>3 DEF Content, View!Routes
<1>q. QED
  BY <1>4, <1>5, <1>6 DEF View!Install

\* A sender's step is the step of RouteView of the same meaning.
LEMMA SenderSteps ==
  ASSUME IInv, TypeOK, NEW s \in Senders
  PROVE  /\ GetRt(s) => View!Begin(s)
         /\ \A k \in Key : GetRte(s, k) => View!Find(s, k)
         /\ ReleaseRt(s) => View!Finish(s)
<1>1. ASSUME ctxVars' = ctxVars
      PROVE  /\ \A t : Content(t)' = Content(t)
             /\ rtable' = rtable /\ val' = val
  BY <1>1 DEF ctxVars, tableVars, Content
<1>2. \A x \in Senders : held[x] # NIL => Content(held[x]) # NIL
  BY ContentType DEF TypeOK
<1>3. ASSUME GetRt(s) PROVE View!Begin(s)
  <2>1. ctxVars' = ctxVars /\ use' = use /\ held[s] = NIL
        /\ held' = [held EXCEPT ![s] = rtable] /\ rtable # NIL
    BY <1>3, NilAssumption DEF GetRt, TypeOK
  <2>2. \A t : Content(t)' = Content(t)
    BY <1>1, <2>1
  <2>3. \A x \in Senders :
          (IF held'[x] = NIL THEN NIL ELSE Content(held[x])')
            = IF x = s THEN Content(rtable)
              ELSE IF held[x] = NIL THEN NIL ELSE Content(held[x])
    <3>1. SUFFICES ASSUME NEW x \in Senders
                   PROVE  (IF held'[x] = NIL THEN NIL ELSE Content(held[x])')
                            = IF x = s THEN Content(rtable)
                              ELSE IF held[x] = NIL THEN NIL ELSE Content(held[x])
      OBVIOUS
    <3>2. ent' = ent /\ me' = me /\ val' = val
      BY <2>1 DEF ctxVars, tableVars
    <3>3. held'[x] = IF x = s THEN rtable ELSE held[x]
      BY <2>1 DEF TypeOK
    <3>4. CASE x = s
      BY <2>1, <3>2, <3>3, <3>4 DEF Content
    <3>5. CASE x # s
      BY <3>2, <3>3, <3>5 DEF Content
    <3>q. QED
      BY <3>4, <3>5
  <2>4. Content(rtable)' = Content(rtable) /\ val' = val
    <3>1. rtable' = rtable /\ ent' = ent /\ me' = me /\ val' = val
      BY <2>1 DEF ctxVars, tableVars
    <3>q. QED
      BY <3>1 DEF Content
  <2>q. QED
    BY <2>1, <2>3, <2>4, Zenon DEF View!Begin
<1>4. ASSUME NEW k \in Key, GetRte(s, k) PROVE View!Find(s, k)
  <2>1. ctxVars' = ctxVars /\ held' = held /\ held[s] # NIL /\ held[s] \in Tbl
        /\ use' = [use EXCEPT ![s] = Find(held[s], k)]
    BY <1>4 DEF GetRte, TypeOK
  <2>a. ent' = ent /\ me' = me /\ val' = val /\ rtable' = rtable /\ held' = held
    BY <2>1 DEF ctxVars, tableVars
  <2>2. Content(rtable)' = Content(rtable) /\ val' = val
    BY <2>a, Zenon DEF Content
  <2>3. [x \in Senders |-> IF held[x] = NIL THEN NIL ELSE Content(held[x])]'
         = [x \in Senders |-> IF held[x] = NIL THEN NIL ELSE Content(held[x])]
    BY <2>a, Zenon DEF Content
  <2>4. (IF Find(held[s], k) = NIL THEN NIL ELSE val[Find(held[s], k)])
         = View!Route(Content(held[s]), k)
    <3>1. \A j \in {k, TypeKey} :
            Content(held[s]).rt[j] = IF ent[held[s]][j] = NIL THEN NIL ELSE val[ent[held[s]][j]]
      BY KeyAssumption DEF Content
    <3>2. \A j \in {k, TypeKey} : ent[held[s]][j] # NIL => val[ent[held[s]][j]] # NIL
      BY <2>1, KeyAssumption, NilAssumption DEF TypeOK
    <3>q. QED
      BY <3>1, <3>2 DEF Find, View!Route
  <2>5. [x \in Senders |-> IF use[x] = NIL THEN NIL ELSE val[use[x]]]'
         = [[x \in Senders |-> IF use[x] = NIL THEN NIL ELSE val[use[x]]]
             EXCEPT ![s] = View!Route(Content(held[s]), k)]
    <3>1. \A x \in Senders :
            (IF use'[x] = NIL THEN NIL ELSE val'[use'[x]])
              = IF x = s THEN View!Route(Content(held[s]), k)
                ELSE IF use[x] = NIL THEN NIL ELSE val[use[x]]
      <4>1. SUFFICES ASSUME NEW x \in Senders
                     PROVE  (IF use'[x] = NIL THEN NIL ELSE val'[use'[x]])
                              = IF x = s THEN View!Route(Content(held[s]), k)
                                ELSE IF use[x] = NIL THEN NIL ELSE val[use[x]]
        OBVIOUS
      <4>2. use'[x] = IF x = s THEN Find(held[s], k) ELSE use[x]
        BY <2>1 DEF TypeOK
      <4>3. CASE x = s
        BY <2>2, <2>4, <4>2, <4>3
      <4>4. CASE x # s
        BY <2>2, <4>2, <4>4
      <4>q. QED
        BY <4>3, <4>4
    <3>q. QED
      BY <3>1
  <2>q. QED
    BY <2>1, <2>2, <2>3, <2>5, <1>2 DEF View!Find
<1>5. ASSUME ReleaseRt(s) PROVE View!Finish(s)
  <2>1. ctxVars' = ctxVars /\ held[s] # NIL
        /\ held' = [held EXCEPT ![s] = NIL]
        /\ use' = [use EXCEPT ![s] = NIL]
    BY <1>5 DEF ReleaseRt
  <2>2. Content(rtable)' = Content(rtable) /\ val' = val
    BY <1>1, <2>1 DEF Content
  <2>3. [x \in Senders |-> IF held[x] = NIL THEN NIL ELSE Content(held[x])]'
         = [[x \in Senders |-> IF held[x] = NIL THEN NIL ELSE Content(held[x])]
             EXCEPT ![s] = NIL]
    <3>1. ent' = ent /\ me' = me /\ val' = val
      BY <2>1 DEF ctxVars, tableVars
    <3>2. \A x \in Senders : held'[x] = IF x = s THEN NIL ELSE held[x]
      BY <2>1 DEF TypeOK
    <3>3. \A x \in Senders :
            (IF held[x] = NIL THEN NIL ELSE Content(held[x]))'
              = IF x = s THEN NIL ELSE IF held[x] = NIL THEN NIL ELSE Content(held[x])
      <4>1. SUFFICES ASSUME NEW x \in Senders
                     PROVE  (IF held'[x] = NIL THEN NIL ELSE Content(held[x])')
                              = IF x = s THEN NIL
                                ELSE IF held[x] = NIL THEN NIL ELSE Content(held[x])
        OBVIOUS
      <4>2. CASE x = s
        BY <3>2, <4>2
      <4>3. CASE x # s
        BY <3>1, <3>2, <4>3 DEF Content
      <4>q. QED
        BY <4>2, <4>3
    <3>q. QED
      BY <3>3
  <2>q. QED
    BY <2>1, <2>2, <2>3, <1>2 DEF View!Finish, TypeOK
<1>q. QED
  BY <1>3, <1>4, <1>5

\* A sender routes its message with one complete set of routes, those in
\* force at its get_rt: RouteTable implements RouteView.
THEOREM ImplementsViewHolds == Spec => ImplementsView
<1>1. Init => View!ViewInit
  <2>1. SUFFICES ASSUME Init PROVE View!ViewInit
    OBVIOUS
  <2>2. Content(rtable) = View!NoRoutes
    BY <2>1 DEF Init, Content, NoEnts, NoOwners, View!NoRoutes
  <2>q. QED
    BY <2>1, <2>2 DEF Init, View!ViewInit
<1>2. IInv /\ TypeOK /\ TypeOK' /\ [Next]_vars => [View!ViewNext]_(View!viewVars)
  <2>1. SUFFICES ASSUME IInv, TypeOK, TypeOK', [Next]_vars
                 PROVE  [View!ViewNext]_(View!viewVars)
    OBVIOUS
  <2>2. CASE Collector
    BY <2>1, <2>2, CollectorInstalls DEF View!ViewNext
  <2>3. CASE \E s \in Senders : Sender(s)
    BY <2>1, <2>3, SenderSteps DEF Sender, View!ViewNext
  <2>4. CASE UNCHANGED vars
    BY <2>4 DEF vars, ctxVars, tableVars, View!viewVars, Content
  <2>q. QED
    BY <2>1, <2>2, <2>3, <2>4 DEF Next
<1>q. QED
  BY <1>1, <1>2, AlwaysInv, TypeCorrect, PTL DEF Spec, ImplementsView, View!ViewSpec
=============================================================================
