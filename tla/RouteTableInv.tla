--------------------------- MODULE RouteTableInv ----------------------------
(*****************************************************************************)
(* The inductive invariant of RouteTable, in layers: the table pointers, the *)
(* holders, and what is in the tables with the reference counts of the       *)
(* entries.                                                                  *)
(*****************************************************************************)
EXTENDS RouteTable, FiniteSetTheorems, TLAPS

-----------------------------------------------------------------------------
(* The inductive invariant, in layers.                               *)

\* Where the tables are: TablesAccounted, and what prep_new_rt knows.
PtrInv ==
  /\ rtable \in Tbl
  /\ old \in Tbl \cup {NIL} /\ new \in Tbl \cup {NIL} /\ rt \in Tbl \cup {NIL}
  /\ live \subseteq Tbl
  /\ TablesAccounted
  /\ pc = "drain" => rt # NIL
  /\ rt # NIL => pc \in {"drain", "clone"}
  /\ pc \in {"drain", "clone"} => old = NIL /\ new = NIL
  /\ rtable \notin err

\* Who holds which table.
HoldInv ==
  /\ held \in [Senders -> Tbl \cup {NIL}]
  /\ refc \in [Tbl -> Nat]
  /\ CountsHolders
  /\ HeldIsStable

\* What is in the tables: a freed or drained one is empty, an entry has one
\* key, the reference counts are exact, and a sender's entry is in its table.
MemInv ==
  /\ ent \in [Tbl -> [Key -> Rte \cup {NIL}]]
  /\ refs \in [Rte -> Nat]
  /\ \A t \in Tbl \ live : ent[t] = NoEnts
  /\ pc = "clone" /\ rt # NIL => ent[rt] = NoEnts
  /\ \A t \in Tbl : \A j, k \in Key : ent[t][j] = ent[t][k] /\ ent[t][j] # NIL => j = k
  /\ RefsExact
  /\ use \in [Senders -> Rte \cup {NIL}]
  /\ \A s \in Senders : use[s] # NIL => held[s] # NIL /\ In(use[s], held[s])

\* The other variables: types, and what a table under construction keeps of
\* the active one.
RestInv ==
  /\ me \in [Tbl -> [Meid -> Owner \cup {NIL}]]
  /\ err \subseteq Tbl
  /\ val \in [Rte -> Val]
  /\ updates \in 0 .. MaxUpdates
  /\ flag \in {"none", "full"}
  /\ seed \in {"reading", "done"}
  /\ ready \in {"no", "yes"}
  /\ ack \in {"none", "ok", "err"}
  /\ pc \in {"records", "drain", "clone", "crashed"}
  /\ kind \in Kinds
  /\ new # NIL /\ new \notin err => /\ kind = "newrt" => me[new] = me[rtable]
                                    /\ kind = "meid" => ent[new] = ent[rtable]

IInv == PtrInv /\ HoldInv /\ MemInv /\ RestInv

Users(r) == {t \in live : In(r, t)}
Holders(t) == {s \in Senders : held[s] = t}

-----------------------------------------------------------------------------
\* The pointers to the tables keep their discipline in every step.
LEMMA PtrStep ==
  ASSUME PtrInv, [Next]_vars
  PROVE  PtrInv'
<1>1. CASE \E k \in Kinds : Start(k)
  BY <1>1, NilAssumption DEF Start, DropNew, Purge, ctxVars, tableVars, senderVars, PtrInv, TablesAccounted
<1>2. CASE Drain
  BY <1>2, NilAssumption DEF Drain, Purge, ctxVars, tableVars, senderVars, PtrInv, TablesAccounted
<1>3. CASE Clone
  BY <1>3, NilAssumption DEF Clone, CloneInto, Target, ctxVars, tableVars, senderVars, PtrInv, TablesAccounted
<1>4. CASE \E k \in Key, r \in Rte, v \in Val : AddRte(k, r, v)
  BY <1>4, NilAssumption DEF AddRte, Record, ctxVars, tableVars, senderVars, PtrInv, TablesAccounted
<1>5. CASE \E k \in Key : DelRte(k)
  BY <1>5, NilAssumption DEF DelRte, Record, ctxVars, tableVars, senderVars, PtrInv, TablesAccounted
<1>6. CASE SkipRecord
  BY <1>6, NilAssumption DEF SkipRecord, Record, ctxVars, tableVars, senderVars, PtrInv, TablesAccounted
<1>7. CASE \E m \in Meid, o \in Owner \cup {NIL} : SetMeid(m, o)
  BY <1>7, NilAssumption DEF SetMeid, Record, ctxVars, tableVars, senderVars, PtrInv, TablesAccounted
<1>8. CASE End
  BY <1>8, NilAssumption DEF End, Roll, ctxVars, tableVars, senderVars, PtrInv, TablesAccounted
<1>9. CASE EndMismatch
  BY <1>9, NilAssumption DEF EndMismatch, DropNew, Purge, ctxVars, tableVars, senderVars, PtrInv, TablesAccounted
<1>10. CASE EndLost
  BY <1>10, NilAssumption DEF EndLost, ctxVars, tableVars, senderVars, PtrInv, TablesAccounted
<1>11. CASE SeedRead
  BY <1>11, NilAssumption DEF SeedRead, ctxVars, tableVars, senderVars, PtrInv, TablesAccounted
<1>12. CASE \E s \in Senders : GetRt(s)
  BY <1>12, NilAssumption DEF GetRt, ctxVars, tableVars, senderVars, PtrInv, TablesAccounted
<1>13. CASE \E s \in Senders, k \in Key : GetRte(s, k)
  BY <1>13, NilAssumption DEF GetRte, ctxVars, tableVars, senderVars, PtrInv, TablesAccounted
<1>14. CASE \E s \in Senders : ReleaseRt(s)
  BY <1>14, NilAssumption DEF ReleaseRt, ctxVars, tableVars, senderVars, PtrInv, TablesAccounted
<1>15. CASE UNCHANGED vars
  BY <1>15, NilAssumption DEF vars, ctxVars, tableVars, senderVars, PtrInv, TablesAccounted
<1>q. QED
  BY <1>1, <1>2, <1>3, <1>4, <1>5, <1>6, <1>7, <1>8, <1>9, <1>10, <1>11, <1>12, <1>13, <1>14, <1>15 DEF Next, Collector, Sender


\* The holders of a table are finitely many, none when the count is zero.
LEMMA HoldersFinite ==
  ASSUME NEW t
  PROVE  /\ IsFiniteSet(Holders(t))
         /\ Cardinality(Holders(t)) \in Nat
         /\ Cardinality(Holders(t)) = 0 => Holders(t) = {}
<1>1. Holders(t) \in SUBSET Senders
  BY DEF Holders
<1>2. IsFiniteSet(Holders(t))
  BY <1>1, FS_Subset, FiniteAssumption
<1>q. QED
  BY <1>2, FS_CardinalityType, FS_EmptySet

\* A table is held only while it is active or draining, and ref_count counts.
LEMMA HoldStep ==
  ASSUME PtrInv, PtrInv', HoldInv, [Next]_vars
  PROVE  HoldInv'
<1>1. CASE \E k \in Kinds : Start(k)
  BY <1>1, NilAssumption DEF Start, DropNew, Purge, ctxVars, tableVars, senderVars, HoldInv, CountsHolders, HeldIsStable, PtrInv, TablesAccounted
<1>2. CASE Drain
  <2>1. Holders(rt) = {}
    BY <1>2, HoldersFinite, Zenon DEF Drain, HoldInv, CountsHolders, Holders, PtrInv
  <2>2. \A s \in Senders : held[s] # rt
    BY <2>1 DEF Holders
  <2>q. QED
    BY <1>2, <2>2, NilAssumption DEF Drain, Purge, senderVars, HoldInv, CountsHolders, HeldIsStable, PtrInv, TablesAccounted
<1>3. CASE Clone
  <2>1. PICK t \in Tbl, copied \in SUBSET Wanted :
          /\ Target(t)
          /\ CloneInto(t, copied)
          /\ err' = IF copied = Wanted THEN err ELSE err \cup {t}
          /\ refc' = [refc EXCEPT ![t] = 0]
          /\ new' = t
    BY <1>3, Zenon DEF Clone
  <2>2. \A s \in Senders : held[s] # t
    BY <1>3, <2>1, NilAssumption DEF Clone, Target, HoldInv, CountsHolders, HeldIsStable, PtrInv, TablesAccounted
  <2>3. Holders(t) = {}
    BY <2>2 DEF Holders
  <2>4. refc[t] = 0
    BY <2>3, FS_EmptySet DEF Holders, HoldInv, CountsHolders
  <2>5. refc' = refc
    BY <2>1, <2>4 DEF HoldInv
  <2>6. /\ pc # "drain" /\ live' = live \cup {t} /\ err' \subseteq err \cup {t} /\ new' = t
        /\ UNCHANGED <<rtable, old, held>>
    BY <1>3, <2>1 DEF Clone, CloneInto
  <2>7. HeldIsStable'
    BY <2>2, <2>6 DEF HoldInv, HeldIsStable
  <2>q. QED
    BY <2>5, <2>6, <2>7 DEF HoldInv, CountsHolders
<1>4. CASE \E k \in Key, r \in Rte, v \in Val : AddRte(k, r, v)
  BY <1>4, NilAssumption DEF AddRte, Record, ctxVars, tableVars, senderVars, HoldInv, CountsHolders, HeldIsStable, PtrInv, TablesAccounted
<1>5. CASE \E k \in Key : DelRte(k)
  BY <1>5, NilAssumption DEF DelRte, Record, ctxVars, tableVars, senderVars, HoldInv, CountsHolders, HeldIsStable, PtrInv, TablesAccounted
<1>6. CASE SkipRecord
  BY <1>6, NilAssumption DEF SkipRecord, Record, ctxVars, tableVars, senderVars, HoldInv, CountsHolders, HeldIsStable, PtrInv, TablesAccounted
<1>7. CASE \E m \in Meid, o \in Owner \cup {NIL} : SetMeid(m, o)
  BY <1>7, NilAssumption DEF SetMeid, Record, ctxVars, tableVars, senderVars, HoldInv, CountsHolders, HeldIsStable, PtrInv, TablesAccounted
<1>8. CASE End
  BY <1>8, NilAssumption DEF End, Roll, ctxVars, tableVars, senderVars, HoldInv, CountsHolders, HeldIsStable, PtrInv, TablesAccounted
<1>9. CASE EndMismatch
  BY <1>9, NilAssumption DEF EndMismatch, DropNew, Purge, ctxVars, tableVars, senderVars, HoldInv, CountsHolders, HeldIsStable, PtrInv, TablesAccounted
<1>10. CASE EndLost
  BY <1>10, NilAssumption DEF EndLost, ctxVars, tableVars, senderVars, HoldInv, CountsHolders, HeldIsStable, PtrInv, TablesAccounted
<1>11. CASE SeedRead
  BY <1>11, NilAssumption DEF SeedRead, ctxVars, tableVars, senderVars, HoldInv, CountsHolders, HeldIsStable, PtrInv, TablesAccounted
<1>12. CASE \E s \in Senders : GetRt(s)
  <2>1. PICK s \in Senders : GetRt(s)
    BY <1>12
  <2>2. \A t \in Tbl : Holders(t)' = IF t = rtable THEN Holders(t) \cup {s} ELSE Holders(t)
    BY <2>1, NilAssumption DEF GetRt, Holders, HoldInv, PtrInv
  <2>3. s \notin Holders(rtable)
    BY <2>1, NilAssumption DEF GetRt, Holders, PtrInv
  <2>4. CountsHolders'
    <3>1. SUFFICES ASSUME NEW t \in Tbl
                   PROVE  refc'[t] = Cardinality(Holders(t)')
      BY DEF CountsHolders, Holders
    <3>2. refc[t] = Cardinality(Holders(t))
      BY DEF HoldInv, CountsHolders, Holders
    <3>3. CASE t = rtable
      <4>1. Cardinality(Holders(t) \cup {s}) = Cardinality(Holders(t)) + 1
        BY <2>3, <3>3, HoldersFinite, FS_AddElement, Zenon
      <4>q. QED
        BY <4>1, <2>1, <2>2, <3>2, <3>3 DEF GetRt, HoldInv
    <3>4. CASE t # rtable
      BY <2>1, <2>2, <3>2, <3>4 DEF GetRt, HoldInv, PtrInv
    <3>q. QED
      BY <3>3, <3>4
  <2>5. HeldIsStable'
    BY <2>1, NilAssumption DEF GetRt, ctxVars, tableVars, HoldInv, CountsHolders, HeldIsStable, PtrInv, TablesAccounted
  <2>q. QED
    BY <2>1, <2>4, <2>5 DEF GetRt, HoldInv, PtrInv
<1>13. CASE \E s \in Senders, k \in Key : GetRte(s, k)
  BY <1>13, NilAssumption DEF GetRte, ctxVars, tableVars, senderVars, HoldInv, CountsHolders, HeldIsStable, PtrInv, TablesAccounted
<1>14. CASE \E s \in Senders : ReleaseRt(s)
  <2>1. PICK s \in Senders : ReleaseRt(s)
    BY <1>14
  <2>2. held[s] \in Tbl /\ s \in Holders(held[s])
    BY <2>1 DEF ReleaseRt, Holders, HoldInv
  <2>3. \A t \in Tbl : Holders(t)' = IF t = held[s] THEN Holders(t) \ {s} ELSE Holders(t)
    BY <2>1, NilAssumption DEF ReleaseRt, Holders, HoldInv
  <2>4. CountsHolders'
    <3>1. SUFFICES ASSUME NEW t \in Tbl
                   PROVE  refc'[t] = Cardinality(Holders(t)')
      BY DEF CountsHolders, Holders
    <3>2. refc[t] = Cardinality(Holders(t))
      BY DEF HoldInv, CountsHolders, Holders
    <3>3. CASE t = held[s]
      <4>1. Cardinality(Holders(t) \ {s}) = Cardinality(Holders(t)) - 1
        BY <2>2, <3>3, HoldersFinite, FS_RemoveElement, Zenon
      <4>2. refc[t] \in Nat /\ refc[t] # 0
        BY <2>2, <3>2, <3>3, HoldersFinite DEF HoldInv
      <4>q. QED
        BY <4>1, <4>2, <2>1, <2>3, <3>2, <3>3 DEF ReleaseRt, HoldInv
    <3>4. CASE t # held[s]
      BY <2>1, <2>2, <2>3, <3>2, <3>4 DEF ReleaseRt, HoldInv
    <3>q. QED
      BY <3>3, <3>4
  <2>5. HeldIsStable'
    BY <2>1, NilAssumption DEF ReleaseRt, ctxVars, tableVars, HoldInv, CountsHolders, HeldIsStable, PtrInv, TablesAccounted
  <2>q. QED
    BY <2>1, <2>4, <2>5 DEF ReleaseRt, HoldInv
<1>15. CASE UNCHANGED vars
  BY <1>15, NilAssumption DEF vars, ctxVars, tableVars, senderVars, HoldInv, CountsHolders, HeldIsStable, PtrInv, TablesAccounted
<1>q. QED
  BY <1>1, <1>2, <1>3, <1>4, <1>5, <1>6, <1>7, <1>8, <1>9, <1>10, <1>11, <1>12, <1>13, <1>14, <1>15 DEF Next, Collector, Sender


\* The tables an entry is in are finitely many, none when the count is zero.
LEMMA UsersFinite ==
  ASSUME PtrInv, NEW r
  PROVE  /\ IsFiniteSet(Users(r))
         /\ Cardinality(Users(r)) \in Nat
         /\ Cardinality(Users(r)) = 0 <=> Users(r) = {}
<1>1. Users(r) \in SUBSET Tbl
  BY DEF Users, PtrInv
<1>2. IsFiniteSet(Users(r))
  BY <1>1, FS_Subset, FiniteAssumption
<1>q. QED
  BY <1>2, FS_CardinalityType, FS_EmptySet

\* Counting one table more or less.
LEMMA UsersChange ==
  ASSUME PtrInv, RefsExact, NEW r \in Rte, NEW t
  PROVE  /\ refs[r] = Cardinality(Users(r))
         /\ t \notin Users(r) => Cardinality(Users(r) \cup {t}) = refs[r] + 1
         /\ t \in Users(r) => Cardinality(Users(r) \ {t}) = refs[r] - 1
         /\ t \in Users(r) => refs[r] \in Nat \ {0}
<1>1. refs[r] = Cardinality(Users(r))
  BY DEF RefsExact, Users
<1>2. /\ IsFiniteSet(Users(r))
      /\ Cardinality(Users(r)) \in Nat
      /\ Cardinality(Users(r)) = 0 <=> Users(r) = {}
  BY UsersFinite
<1>3. t \notin Users(r) => Cardinality(Users(r) \cup {t}) = refs[r] + 1
  BY <1>1, <1>2, FS_AddElement, Zenon
<1>4. t \in Users(r) => Cardinality(Users(r) \ {t}) = refs[r] - 1
  BY <1>1, <1>2, FS_RemoveElement, Zenon
<1>5. t \in Users(r) => refs[r] \in Nat \ {0}
  BY <1>1, <1>2
<1>q. QED
  BY <1>1, <1>3, <1>4, <1>5

\* Emptying a table nobody holds, freed or kept, keeps the counts exact.
LEMMA PurgeStep ==
  ASSUME PtrInv, MemInv, NEW t \in live, Purge(t), live' \in {live, live \ {t}},
         \A s \in Senders : held[s] # t, UNCHANGED <<held, use>>
  PROVE  /\ ent' \in [Tbl -> [Key -> Rte \cup {NIL}]]
         /\ refs' \in [Rte -> Nat]
         /\ \A u \in Tbl \ live' : ent'[u] = NoEnts
         /\ ent'[t] = NoEnts
         /\ \A u \in Tbl : \A j, k \in Key :
              ent'[u][j] = ent'[u][k] /\ ent'[u][j] # NIL => j = k
         /\ RefsExact'
         /\ use' \in [Senders -> Rte \cup {NIL}]
         /\ \A s \in Senders : use'[s] # NIL => held'[s] # NIL /\ In(use[s], held[s])'
<1>1. t \in Tbl
  BY DEF PtrInv
<1>2. ent' \in [Tbl -> [Key -> Rte \cup {NIL}]] /\ ent'[t] = NoEnts
  BY <1>1 DEF Purge, MemInv, NoEnts
<1>3. \A u \in Tbl \ {t} : ent'[u] = ent[u]
  BY <1>1 DEF Purge, MemInv
<1>4. \A r \in Rte : Users(r)' = Users(r) \ {t}
  BY <1>1, <1>2, <1>3, NilAssumption DEF Users, In, NoEnts, PtrInv
<1>5. \A r \in Rte : refs'[r] = Cardinality(Users(r)') /\ refs'[r] \in Nat
  <2>1. SUFFICES ASSUME NEW r \in Rte
                 PROVE  refs'[r] = Cardinality(Users(r)') /\ refs'[r] \in Nat
    OBVIOUS
  <2>2. CASE In(r, t)
    <3>1. t \in Users(r)
      BY <2>2 DEF Users
    <3>2. refs'[r] = refs[r] - 1
      BY <2>2 DEF Purge
    <3>3. RefsExact
      BY DEF MemInv
    <3>4. Cardinality(Users(r) \ {t}) = refs[r] - 1 /\ refs[r] \in Nat \ {0}
      BY <3>1, <3>3, UsersChange, Zenon
    <3>5. Cardinality(Users(r)') = Cardinality(Users(r) \ {t})
      BY <1>4, Zenon
    <3>q. QED
      BY <3>2, <3>4, <3>5
  <2>3. CASE ~In(r, t)
    <3>1. Users(r) \ {t} = Users(r)
      BY <2>3 DEF Users
    <3>2. refs'[r] = refs[r]
      BY <2>3 DEF Purge
    <3>q. QED
      BY <3>1, <3>2, <1>4, UsersChange, Zenon DEF MemInv
  <2>q. QED
    BY <2>2, <2>3
<1>6. refs' \in [Rte -> Nat]
  BY <1>5 DEF Purge
<1>7. RefsExact'
  BY <1>5 DEF RefsExact, Users
<1>8. \A s \in Senders : use'[s] # NIL => held'[s] # NIL /\ In(use[s], held[s])'
  <2>1. SUFFICES ASSUME NEW s \in Senders, use[s] # NIL
                 PROVE  held[s] # NIL /\ In(use[s], held[s])'
    OBVIOUS
  <2>2. held[s] # NIL /\ held[s] # t /\ In(use[s], held[s])
    BY <2>1 DEF MemInv
  <2>3. ent'[held[s]] = ent[held[s]]
    BY <2>2 DEF Purge
  <2>q. QED
    BY <2>2, <2>3 DEF In
<1>9. \A u \in Tbl \ live' : ent'[u] = NoEnts
  BY <1>1, <1>2, <1>3 DEF MemInv
<1>10. \A u \in Tbl : \A j, k \in Key :
         ent'[u][j] = ent'[u][k] /\ ent'[u][j] # NIL => j = k
  <2>1. SUFFICES ASSUME NEW u \in Tbl, NEW j \in Key, NEW k \in Key,
                        ent'[u][j] = ent'[u][k], ent'[u][j] # NIL
                 PROVE  j = k
    OBVIOUS
  <2>2. u # t
    BY <2>1, <1>2 DEF NoEnts
  <2>3. ent'[u] = ent[u]
    BY <2>2, <1>3
  <2>q. QED
    BY <2>1, <2>3 DEF MemInv
<1>11. use' \in [Senders -> Rte \cup {NIL}]
  BY DEF MemInv
<1>q. QED
  BY <1>2, <1>6, <1>7, <1>8, <1>9, <1>10, <1>11

-----------------------------------------------------------------------------
\* MemInv speaks of these variables only.
LEMMA MemUnchanged ==
  ASSUME MemInv, UNCHANGED <<live, ent, refs, rt, held, use>>, pc' = "clone" => pc = "clone"
  PROVE  MemInv'
<1>1. UNCHANGED <<live, ent, refs, rt>> /\ UNCHANGED <<held, use>>
  OBVIOUS
<1>2. RefsExact'
  BY <1>1 DEF MemInv, RefsExact, In
<1>3. \A s \in Senders : use'[s] # NIL => held'[s] # NIL /\ In(use[s], held[s])'
  BY <1>1 DEF MemInv, In
<1>q. QED
  BY <1>1, <1>2, <1>3 DEF MemInv

\* A step of a sender changes what it holds and uses only.
LEMMA MemSender ==
  ASSUME MemInv, UNCHANGED <<live, ent, refs, rt, pc>>,
         use' \in [Senders -> Rte \cup {NIL}],
         \A x \in Senders : use'[x] # NIL => held'[x] # NIL /\ In(use[x], held[x])'
  PROVE  MemInv'
<1>1. RefsExact'
  BY DEF MemInv, RefsExact, In
<1>q. QED
  BY <1>1 DEF MemInv

\* The tables' contents and the entries' reference counts stay in step.
LEMMA MemStep ==
  ASSUME PtrInv, HoldInv, MemInv, [Next]_vars
  PROVE  MemInv'
<1>1. CASE \E k \in Kinds : Start(k)
  <2>1. PICK k \in Kinds : Start(k)
    BY <1>1
  <2>2. CASE new = NIL
    BY <2>1, <2>2 DEF Start, senderVars, tableVars, MemInv, RefsExact, In, PtrInv, TablesAccounted
  <2>3. CASE new # NIL
    <3>1. \A s \in Senders : held[s] # new
      BY <2>3 DEF HoldInv, HeldIsStable
    <3>2. new \in live /\ old = NIL /\ Purge(new) /\ live' = live \ {new} /\ rt' = NIL
      BY <2>1, <2>3 DEF Start, DropNew, PtrInv, TablesAccounted
    <3>3. UNCHANGED <<held, use>>
      BY <2>1 DEF Start, senderVars
    <3>q. QED
      BY <3>1, <3>2, <3>3, PurgeStep DEF MemInv
  <2>q. QED
    BY <2>2, <2>3
<1>2. CASE Drain
  <2>1. Holders(rt) = {}
    BY <1>2, HoldersFinite, Zenon DEF Drain, HoldInv, CountsHolders, Holders, PtrInv
  <2>2. \A s \in Senders : held[s] # rt
    BY <2>1 DEF Holders
  <2>3. rt \in live /\ rt' = rt /\ Purge(rt) /\ live' = live
    BY <1>2 DEF Drain, PtrInv, TablesAccounted
  <2>4. UNCHANGED <<held, use>>
    BY <1>2 DEF Drain, senderVars
  <2>q. QED
    BY <2>2, <2>3, <2>4, PurgeStep DEF MemInv
<1>3. CASE Clone
  <2>1. PICK t \in Tbl, copied \in SUBSET Wanted : Target(t) /\ CloneInto(t, copied)
    BY <1>3 DEF Clone
  <2>2. ent[t] = NoEnts /\ t # rtable
    BY <1>3, <2>1, NilAssumption DEF Clone, Target, MemInv, PtrInv, TablesAccounted
  <2>3. \A s \in Senders : use[s] # NIL => held[s] \in Tbl /\ held[s] # t
    BY <2>2, NilAssumption DEF MemInv, In, NoEnts, HoldInv
  <2>4. \A r \in Rte : t \notin Users(r)
    BY <2>2, NilAssumption DEF Users, In, NoEnts
  <2>5. /\ UNCHANGED <<held, use>>
        /\ rt' = NIL
        /\ live' = live \cup {t}
    BY <1>3, <2>1 DEF Clone, CloneInto
  <2>6. CASE "mt" \in copied
    <3>1. /\ ent' = [ent EXCEPT ![t] = ent[rtable]]
          /\ refs' = [r \in Rte |-> IF In(r, rtable) THEN refs[r] + 1 ELSE refs[r]]
      BY <2>1, <2>6 DEF CloneInto
    <3>2. \A r \in Rte : Users(r)' = IF In(r, rtable) THEN Users(r) \cup {t} ELSE Users(r)
      BY <3>1, <2>1, <2>2, <2>4, <2>5, NilAssumption DEF Users, In, MemInv, PtrInv, NoEnts
    <3>3. \A r \in Rte : refs'[r] = Cardinality(Users(r)') /\ refs'[r] \in Nat
      <4>1. SUFFICES ASSUME NEW r \in Rte
                     PROVE  refs'[r] = Cardinality(Users(r)') /\ refs'[r] \in Nat
        OBVIOUS
      <4>2. RefsExact /\ refs[r] \in Nat
        BY DEF MemInv
      <4>3. refs[r] = Cardinality(Users(r)) /\ Cardinality(Users(r) \cup {t}) = refs[r] + 1
        BY <2>4, <4>2, UsersChange
      <4>4. Cardinality(Users(r)') = IF In(r, rtable) THEN Cardinality(Users(r) \cup {t})
                                                     ELSE Cardinality(Users(r))
        BY <3>2, Zenon
      <4>q. QED
        BY <3>1, <4>2, <4>3, <4>4
    <3>4. RefsExact' /\ refs' \in [Rte -> Nat]
      BY <3>1, <3>3, Zenon DEF RefsExact, Users
    <3>5. ent' \in [Tbl -> [Key -> Rte \cup {NIL}]]
      BY <3>1, <2>2 DEF MemInv, PtrInv
    <3>6. \A u \in Tbl : ent'[u] = IF u = t THEN ent[rtable] ELSE ent[u]
      BY <3>1 DEF MemInv
    <3>7. \A u \in Tbl : \A i, j \in Key : ent'[u][i] = ent'[u][j] /\ ent'[u][i] # NIL => i = j
      <4>1. rtable \in Tbl
        BY DEF PtrInv
      <4>2. \A u \in Tbl : \A i, j \in Key : ent[u][i] = ent[u][j] /\ ent[u][i] # NIL => i = j
        BY DEF MemInv
      <4>q. QED
        BY <3>6, <4>1, <4>2
    <3>8. \A u \in Tbl \ live' : ent'[u] = NoEnts
      BY <3>6, <2>5 DEF MemInv
    <3>9. \A s \in Senders : use'[s] # NIL => held'[s] # NIL /\ In(use[s], held[s])'
      BY <3>6, <2>3, <2>5 DEF MemInv, In
    <3>q. QED
      BY <3>4, <3>5, <3>7, <3>8, <3>9, <2>5 DEF MemInv
  <2>7. CASE "mt" \notin copied
    <3>1. UNCHANGED <<ent, refs>>
      BY <2>1, <2>7 DEF CloneInto
    <3>2. \A r \in Rte : Users(r)' = Users(r)
      BY <3>1, <2>4, <2>5, <2>2, NilAssumption DEF Users, In, NoEnts
    <3>3. RefsExact'
      BY <3>1, <3>2 DEF RefsExact, Users, MemInv
    <3>q. QED
      BY <3>1, <3>3, <2>5 DEF MemInv, In
  <2>q. QED
    BY <2>6, <2>7
<1>4. CASE \E k \in Key, r \in Rte, v \in Val : AddRte(k, r, v)
  <2>1. PICK k \in Key, r \in Rte, v \in Val : AddRte(k, r, v)
    BY <1>4
  <2>2. new \in Tbl /\ new \in live /\ pc = "records" /\ rt = NIL
    BY <2>1 DEF AddRte, Record, PtrInv, TablesAccounted
  <2>3. Users(r) = {}
    BY <2>1, UsersChange, UsersFinite, Zenon DEF AddRte, MemInv
  <2>4. \A t \in live, j \in Key : ent[t][j] # r
    BY <2>3 DEF Users, In
  <2>5. /\ ent' = [ent EXCEPT ![new][k] = r]
        /\ refs' = [q \in Rte |-> IF q = r THEN 1
                                  ELSE IF q = ent[new][k] THEN refs[q] - 1
                                  ELSE refs[q]]
        /\ UNCHANGED <<live, pc, rt, held, use>>
    BY <2>1 DEF AddRte, Record, senderVars
  <2>a. /\ live \subseteq Tbl
        /\ \A j \in Key : ent'[new][j] = IF j = k THEN r ELSE ent[new][j]
        /\ \A t \in Tbl : t # new => ent'[t] = ent[t]
    BY <2>2, <2>5 DEF MemInv, PtrInv
  <2>6. \A q \in Rte : refs'[q] = Cardinality(Users(q)') /\ refs'[q] \in Nat
    <3>1. SUFFICES ASSUME NEW q \in Rte
                   PROVE  refs'[q] = Cardinality(Users(q)') /\ refs'[q] \in Nat
      OBVIOUS
    <3>2. CASE q = r
      <4>1. Users(q)' = Users(q) \cup {new}
        BY <3>2, <2>2, <2>3, <2>4, <2>5, <2>a DEF Users, In
      <4>2. refs[q] = 0
        BY <3>2, <2>1 DEF AddRte
      <4>3. new \notin Users(q) /\ RefsExact
        BY <3>2, <2>3 DEF MemInv
      <4>4. Cardinality(Users(q) \cup {new}) = refs[q] + 1
        BY <4>3, UsersChange, Zenon
      <4>q. QED
        BY <4>1, <4>2, <4>4, <3>2, <2>5
    <3>3. CASE q # r /\ q = ent[new][k]
      <4>a. new \in Users(q)
        BY <3>3, <2>2 DEF Users, In
      <4>b. \A j \in Key : j # k => ent[new][j] # q
        BY <3>3, <2>2, NilAssumption DEF MemInv
      <4>c. \A t \in Tbl : In(q, t)' <=> In(q, t) /\ t # new
        BY <3>3, <2>a, <4>b, NilAssumption DEF In
      <4>1. Users(q)' = Users(q) \ {new} /\ new \in Users(q)
        BY <2>a, <2>5, <4>a, <4>c DEF Users
      <4>2. Cardinality(Users(q) \ {new}) = refs[q] - 1 /\ refs[q] \in Nat \ {0}
        BY <4>1, UsersChange, Zenon DEF MemInv
      <4>q. QED
        BY <4>1, <4>2, <3>3, <2>5
    <3>4. CASE q # r /\ q # ent[new][k]
      <4>a. \A t \in Tbl : In(q, t)' <=> In(q, t)
        BY <3>4, <2>a, NilAssumption DEF In
      <4>1. Users(q)' = Users(q)
        BY <2>a, <2>5, <4>a DEF Users
      <4>q. QED
        BY <4>1, <3>4, <2>5, UsersChange, Zenon DEF MemInv
    <3>q. QED
      BY <3>2, <3>3, <3>4
  <2>7. RefsExact' /\ refs' \in [Rte -> Nat]
    BY <2>5, <2>6, Zenon DEF RefsExact, Users
  <2>8. \A s \in Senders : use[s] # NIL => held[s] \in Tbl /\ held[s] # new
    BY <2>2 DEF HoldInv, HeldIsStable, MemInv
  <2>9. \A s \in Senders : use'[s] # NIL => held'[s] # NIL /\ In(use[s], held[s])'
    <3>1. SUFFICES ASSUME NEW s \in Senders, use[s] # NIL
                   PROVE  held[s] # NIL /\ In(use[s], held[s])'
      BY <2>5
    <3>2. held[s] # NIL /\ In(use[s], held[s])
      BY <3>1 DEF MemInv
    <3>3. ent'[held[s]] = ent[held[s]]
      BY <3>1, <2>8, <2>a
    <3>q. QED
      BY <2>5, <3>2, <3>3 DEF In
  <2>10. ent' \in [Tbl -> [Key -> Rte \cup {NIL}]]
    BY <2>2, <2>5 DEF MemInv
  <2>11. \A t \in Tbl : \A i, j \in Key : ent'[t][i] = ent'[t][j] /\ ent'[t][i] # NIL => i = j
    <3>1. SUFFICES ASSUME NEW t \in Tbl, NEW i \in Key, NEW j \in Key,
                          ent'[t][i] = ent'[t][j], ent'[t][i] # NIL
                   PROVE  i = j
      OBVIOUS
    <3>a. \A m, n \in Key : ent[t][m] = ent[t][n] /\ ent[t][m] # NIL => m = n
      BY Zenon DEF MemInv
    <3>2. CASE t = new
      <4>1. \A m \in Key : ent[t][m] # r
        BY <3>2, <2>2, <2>4, Zenon
      <4>q. QED
        BY <3>1, <3>2, <3>a, <2>a, <4>1
    <3>3. CASE t # new
      BY <3>1, <3>3, <3>a, <2>a
    <3>q. QED
      BY <3>2, <3>3
  <2>12. (\A t \in Tbl \ live' : ent'[t] = NoEnts) /\ ~(pc' = "clone")
    BY <2>2, <2>5, <2>a DEF MemInv
  <2>13. use' \in [Senders -> Rte \cup {NIL}]
    BY <2>5 DEF MemInv
  <2>q. QED
    BY <2>7, <2>9, <2>10, <2>11, <2>12, <2>13, Zenon DEF MemInv
<1>5. CASE \E k \in Key : DelRte(k)
  <2>1. PICK k \in Key : DelRte(k)
    BY <1>5
  <2>2. new \in Tbl /\ new \in live /\ pc = "records" /\ rt = NIL
    BY <2>1 DEF DelRte, Record, PtrInv, TablesAccounted
  <2>5. /\ ent' = [ent EXCEPT ![new][k] = NIL]
        /\ refs' = [q \in Rte |-> IF q = ent[new][k] THEN refs[q] - 1 ELSE refs[q]]
        /\ UNCHANGED <<live, pc, rt, held, use>>
    BY <2>1 DEF DelRte, Record, senderVars
  <2>a. /\ live \subseteq Tbl
        /\ \A j \in Key : ent'[new][j] = IF j = k THEN NIL ELSE ent[new][j]
        /\ \A t \in Tbl : t # new => ent'[t] = ent[t]
    BY <2>2, <2>5 DEF MemInv, PtrInv
  <2>6. \A q \in Rte : refs'[q] = Cardinality(Users(q)') /\ refs'[q] \in Nat
    <3>1. SUFFICES ASSUME NEW q \in Rte
                   PROVE  refs'[q] = Cardinality(Users(q)') /\ refs'[q] \in Nat
      OBVIOUS
    <3>3. CASE q = ent[new][k]
      <4>a. new \in Users(q)
        BY <3>3, <2>2 DEF Users, In
      <4>b. \A j \in Key : j # k => ent[new][j] # q
        BY <3>3, <2>2, NilAssumption DEF MemInv
      <4>c. \A t \in Tbl : In(q, t)' <=> In(q, t) /\ t # new
        BY <3>3, <2>a, <4>b, NilAssumption DEF In
      <4>1. Users(q)' = Users(q) \ {new} /\ new \in Users(q)
        BY <2>a, <2>5, <4>a, <4>c DEF Users
      <4>2. Cardinality(Users(q) \ {new}) = refs[q] - 1 /\ refs[q] \in Nat \ {0}
        BY <4>1, UsersChange, Zenon DEF MemInv
      <4>q. QED
        BY <4>1, <4>2, <3>3, <2>5
    <3>4. CASE q # ent[new][k]
      <4>a. \A t \in Tbl : In(q, t)' <=> In(q, t)
        BY <3>4, <2>a, NilAssumption DEF In
      <4>1. Users(q)' = Users(q)
        BY <2>a, <2>5, <4>a DEF Users
      <4>q. QED
        BY <4>1, <3>4, <2>5, UsersChange, Zenon DEF MemInv
    <3>q. QED
      BY <3>3, <3>4
  <2>7. RefsExact' /\ refs' \in [Rte -> Nat]
    BY <2>5, <2>6, Zenon DEF RefsExact, Users
  <2>8. \A s \in Senders : use[s] # NIL => held[s] \in Tbl /\ held[s] # new
    BY <2>2 DEF HoldInv, HeldIsStable, MemInv
  <2>9. \A s \in Senders : use'[s] # NIL => held'[s] # NIL /\ In(use[s], held[s])'
    <3>1. SUFFICES ASSUME NEW s \in Senders, use[s] # NIL
                   PROVE  held[s] # NIL /\ In(use[s], held[s])'
      BY <2>5
    <3>2. held[s] # NIL /\ In(use[s], held[s])
      BY <3>1 DEF MemInv
    <3>3. ent'[held[s]] = ent[held[s]]
      BY <3>1, <2>8, <2>a
    <3>q. QED
      BY <2>5, <3>2, <3>3 DEF In
  <2>10. ent' \in [Tbl -> [Key -> Rte \cup {NIL}]]
    BY <2>2, <2>5 DEF MemInv
  <2>11. \A t \in Tbl : \A i, j \in Key : ent'[t][i] = ent'[t][j] /\ ent'[t][i] # NIL => i = j
    <3>1. SUFFICES ASSUME NEW t \in Tbl, NEW i \in Key, NEW j \in Key,
                          ent'[t][i] = ent'[t][j], ent'[t][i] # NIL
                   PROVE  i = j
      OBVIOUS
    <3>a. \A m, n \in Key : ent[t][m] = ent[t][n] /\ ent[t][m] # NIL => m = n
      BY Zenon DEF MemInv
    <3>2. CASE t = new
      BY <3>1, <3>2, <3>a, <2>a
    <3>3. CASE t # new
      BY <3>1, <3>3, <3>a, <2>a
    <3>q. QED
      BY <3>2, <3>3
  <2>12. (\A t \in Tbl \ live' : ent'[t] = NoEnts) /\ ~(pc' = "clone")
    BY <2>2, <2>5, <2>a DEF MemInv
  <2>13. use' \in [Senders -> Rte \cup {NIL}]
    BY <2>5 DEF MemInv
  <2>q. QED
    BY <2>7, <2>9, <2>10, <2>11, <2>12, <2>13, Zenon DEF MemInv
<1>6. CASE SkipRecord
  <2>1. UNCHANGED <<live, ent, refs, rt, held, use>> /\ (pc' = "clone" => pc = "clone")
    BY <1>6 DEF SkipRecord, Record, tableVars, senderVars
  <2>q. QED
    BY <2>1, MemUnchanged, Zenon
<1>7. CASE \E m \in Meid, o \in Owner \cup {NIL} : SetMeid(m, o)
  <2>1. UNCHANGED <<live, ent, refs, rt, held, use>> /\ (pc' = "clone" => pc = "clone")
    BY <1>7 DEF SetMeid, Record, tableVars, senderVars
  <2>q. QED
    BY <2>1, MemUnchanged, Zenon
<1>8. CASE End
  <2>1. UNCHANGED <<live, ent, refs, rt, held, use>> /\ (pc' = "clone" => pc = "clone")
    BY <1>8 DEF End, Roll, tableVars, senderVars
  <2>q. QED
    BY <2>1, MemUnchanged, Zenon
<1>9. CASE EndMismatch
  <2>1. \A s \in Senders : held[s] # new
    BY <1>9 DEF EndMismatch, HoldInv, HeldIsStable
  <2>2. new \in live /\ rt' = NIL /\ Purge(new) /\ live' = live \ {new}
    BY <1>9 DEF EndMismatch, DropNew, PtrInv, TablesAccounted
  <2>3. UNCHANGED <<held, use>>
    BY <1>9 DEF EndMismatch, senderVars
  <2>q. QED
    BY <2>1, <2>2, <2>3, PurgeStep DEF MemInv
<1>10. CASE EndLost
  <2>1. UNCHANGED <<live, ent, refs, rt, held, use>> /\ (pc' = "clone" => pc = "clone")
    BY <1>10 DEF EndLost, tableVars, senderVars
  <2>q. QED
    BY <2>1, MemUnchanged, Zenon
<1>11. CASE SeedRead
  <2>1. UNCHANGED <<live, ent, refs, rt, held, use>> /\ (pc' = "clone" => pc = "clone")
    BY <1>11 DEF SeedRead, tableVars, senderVars
  <2>q. QED
    BY <2>1, MemUnchanged, Zenon
<1>12. CASE \E s \in Senders : GetRt(s)
  <2>1. PICK s \in Senders : GetRt(s)
    BY <1>12
  <2>2. UNCHANGED <<live, ent, refs, rt, pc>>
    BY <2>1 DEF GetRt, ctxVars, tableVars
  <2>4. /\ use' \in [Senders -> Rte \cup {NIL}]
        /\ \A x \in Senders : use'[x] # NIL => held'[x] # NIL /\ In(use[x], held[x])'
    BY <2>1, <2>2, KeyAssumption, NilAssumption DEF GetRt, PtrInv, MemInv, HoldInv, In, Find
  <2>q. QED
    BY <2>2, <2>4, MemSender, Zenon
<1>13. CASE \E s \in Senders, k \in Key : GetRte(s, k)
  <2>1. PICK s \in Senders, k \in Key : GetRte(s, k)
    BY <1>13
  <2>2. UNCHANGED <<live, ent, refs, rt, pc>>
    BY <2>1 DEF GetRte, ctxVars, tableVars
  <2>4. /\ use' \in [Senders -> Rte \cup {NIL}]
        /\ \A x \in Senders : use'[x] # NIL => held'[x] # NIL /\ In(use[x], held[x])'
    BY <2>1, <2>2, KeyAssumption, NilAssumption DEF GetRte, MemInv, HoldInv, In, Find
  <2>q. QED
    BY <2>2, <2>4, MemSender, Zenon
<1>14. CASE \E s \in Senders : ReleaseRt(s)
  <2>1. PICK s \in Senders : ReleaseRt(s)
    BY <1>14
  <2>2. UNCHANGED <<live, ent, refs, rt, pc>>
    BY <2>1 DEF ReleaseRt, ctxVars, tableVars
  <2>4. /\ use' \in [Senders -> Rte \cup {NIL}]
        /\ \A x \in Senders : use'[x] # NIL => held'[x] # NIL /\ In(use[x], held[x])'
    BY <2>1, <2>2, KeyAssumption, NilAssumption DEF ReleaseRt, MemInv, HoldInv, In, Find
  <2>q. QED
    BY <2>2, <2>4, MemSender, Zenon
<1>15. CASE UNCHANGED vars
  <2>1. UNCHANGED <<live, ent, refs, rt, held, use>> /\ (pc' = "clone" => pc = "clone")
    BY <1>15 DEF vars, ctxVars, tableVars
  <2>q. QED
    BY <2>1, MemUnchanged, Zenon
<1>q. QED
  BY <1>1, <1>2, <1>3, <1>4, <1>5, <1>6, <1>7, <1>8, <1>9, <1>10, <1>11, <1>12, <1>13, <1>14, <1>15 DEF Next, Collector, Sender
=============================================================================
