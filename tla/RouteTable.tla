----------------------------- MODULE RouteTable -----------------------------
(***************************************************************************)
(* The route tables of a context (common/src/rt_generic_static.c): the     *)
(* collector thread (rtc) builds a new table from the records the route    *)
(* manager sends, rolls it in and recycles the table that was active       *)
(* before, while application threads route messages with the active one.   *)
(* A table maps keys to entries (space 0 of its hash) and managed entity   *)
(* ids to the endpoints which own them (the ME space).  An update starts   *)
(* from a clone of the active table which shares the entries of the        *)
(* original; rte->refs counts the tables an entry is in.                   *)
(*                                                                         *)
(* A record is one step, except that the start of a table waits for the    *)
(* old one to drain (prep_new_rt).  Only the collector touches refs, the   *)
(* tables under construction and the pointers, the last ones under rtgate. *)
(* An entry is allocated while its refs is positive; memory is reused.     *)
(* Records of the three kinds of table are not mixed within one table: the *)
(* comment at the head of parse_rt_rec makes that the sender's duty.       *)
(***************************************************************************)
EXTENDS Naturals, FiniteSets

CONSTANTS
  Tbl,           \* route_table_t structures
  Rte,           \* rtable_ent_t structures
  Key,           \* keys (subscription id and type) of one message type
  TypeKey,       \* the key with an unset subscription id
  Val,           \* what an entry says: its round robin groups
  Meid, Owner,   \* managed entities, and the endpoints that own them
  Senders,       \* application threads
  NIL,
  MaxUpdates,    \* bound on the records of one table
  CloneFails,    \* TRUE when cloning a table may run out of memory
  LostStart      \* TRUE when an end record may come without its start

ASSUME NilAssumption == NIL \notin Tbl \cup Rte \cup Val \cup Owner

ASSUME NilIsNoRoutes ==
  NIL \notin [rt : [Key -> Val \cup {NIL}], me : [Meid -> Owner \cup {NIL}]]

ASSUME KeyAssumption == TypeKey \in Key

ASSUME FiniteAssumption == IsFiniteSet(Tbl) /\ IsFiniteSet(Senders)

ASSUME MaxUpdatesAssumption == MaxUpdates \in Nat

VARIABLES
  rtable, old, new,  \* ctx->rtable, ctx->old_rtable, ctx->new_rtable
  live,              \* allocated tables
  ent, me,           \* per table: its entries by key, its owners by meid
  err,               \* tables with rt->error set
  refs, val,         \* per entry: rte->refs, and its groups
  updates,           \* updates (mupdates for a meid map) of new_rtable
  flag,              \* "full" when CFL_FULLRT is set in ctx->flags
  seed,              \* "reading" while the static table is loaded
  ready,             \* "yes" when ctx->rtable_ready is set
  ack,               \* the state last passed to send_rt_ack
  pc, rt,            \* prep_new_rt: where it is, and its local rt
  kind,              \* kind of the table started last
  refc,              \* per table: ref_count
  held, use          \* per sender: its table, the entry it works with

tableVars == <<live, ent, me, err, refs, val>>
ctxVars == <<rtable, old, new, tableVars, updates, flag, seed, ready, ack,
             pc, rt, kind>>
vars == <<ctxVars, refc, held, use>>

Kinds == {"newrt", "update", "meid"}

NoEnts == [k \in Key |-> NIL]
NoOwners == [m \in Meid |-> NIL]

\* Whether entry r is in table t; each entry sits under its own key only.
In(r, t) == \E k \in Key : ent[t][k] = r

\* rmr_init: an empty table is active before the collector starts.
Init ==
  /\ rtable \in Tbl /\ old = NIL /\ new = NIL
  /\ live = {rtable}
  /\ ent = [t \in Tbl |-> NoEnts]
  /\ me = [t \in Tbl |-> NoOwners]
  /\ err = {}
  /\ refs = [r \in Rte |-> 0]
  /\ val \in [Rte -> Val]
  /\ updates = 0
  /\ flag = "none" /\ seed = "reading" /\ ready = "no" /\ ack = "none"
  /\ pc = "records" /\ rt = NIL /\ kind = "newrt"
  /\ refc = [t \in Tbl |-> 0]
  /\ held = [s \in Senders |-> NIL]
  /\ use = [s \in Senders |-> NIL]

-----------------------------------------------------------------------------
(* Application threads (mtosend_msg and the other users of get_rt).        *)

\* Variant: the table is used without being counted.
GetRtUncounted(s) ==
  /\ held[s] = NIL
  /\ held' = [held EXCEPT ![s] = rtable]
  /\ UNCHANGED <<ctxVars, refc, use>>

GetRt(s) ==
  /\ held[s] = NIL
  /\ held' = [held EXCEPT ![s] = rtable]
  /\ refc' = [refc EXCEPT ![rtable] = @ + 1]
  /\ UNCHANGED <<ctxVars, use>>

\* uta_get_rte with try_alt: the full key first, then the message type.
Find(t, k) == IF ent[t][k] # NIL THEN ent[t][k] ELSE ent[t][TypeKey]

GetRte(s, k) ==
  /\ held[s] # NIL
  /\ use' = [use EXCEPT ![s] = Find(held[s], k)]
  /\ UNCHANGED <<ctxVars, refc, held>>

\* Variant: a path that forgets release_rt.
ReleaseRtForgotten(s) ==
  /\ held[s] # NIL
  /\ held' = [held EXCEPT ![s] = NIL]
  /\ use' = [use EXCEPT ![s] = NIL]
  /\ UNCHANGED <<ctxVars, refc>>

ReleaseRt(s) ==
  /\ held[s] # NIL
  /\ refc' = [refc EXCEPT ![held[s]] = IF @ > 0 THEN @ - 1 ELSE @]
  /\ held' = [held EXCEPT ![s] = NIL]
  /\ use' = [use EXCEPT ![s] = NIL]
  /\ UNCHANGED ctxVars

senderVars == <<refc, held, use>>

-----------------------------------------------------------------------------
(* Tables: what del_rte, uta_rt_drop and roll_tables do.                   *)

\* del_rte on every entry of table t, then the table's hash is emptied.
Purge(t) ==
  /\ refs' = [r \in Rte |-> IF In(r, t) THEN refs[r] - 1 ELSE refs[r]]
  /\ ent' = [ent EXCEPT ![t] = NoEnts]
  /\ me' = [me EXCEPT ![t] = NoOwners]
  /\ err' = err \ {t}
  /\ UNCHANGED val

\* uta_rt_drop of the table under construction.
DropNew ==
  /\ Purge(new)
  /\ live' = live \ {new}
  /\ new' = NIL

\* roll_tables
Roll ==
  /\ new' = NIL
  /\ IF new \in err
     THEN old' = new /\ UNCHANGED rtable
     ELSE old' = rtable /\ rtable' = new
  /\ UNCHANGED tableVars

-----------------------------------------------------------------------------
(* The collector: parse_rt_rec and meid_parser, one record a step.         *)

\* Variant: the table in progress is forgotten, not dropped.
StartForgets(k) ==
  /\ pc = "records"
  /\ k = "update" => flag = "full"
  /\ ack' = IF new = NIL THEN ack ELSE "err"
  /\ new' = NIL
  /\ kind' = k
  /\ rt' = old
  /\ old' = NIL
  /\ pc' = IF old = NIL THEN "clone" ELSE "drain"
  /\ UNCHANGED <<rtable, tableVars, updates, flag, seed, ready, senderVars>>

\* newrt|start, updatert|start and meid_map|start, up to the point where
\* prep_new_rt took the old table: a table still in progress is dropped and
\* nacked.  An update is ignored until a full table was received.
Start(k) ==
  /\ pc = "records"
  /\ k = "update" => flag = "full"
  /\ IF new = NIL
     THEN UNCHANGED <<new, tableVars, ack>>
     ELSE DropNew /\ ack' = "err"
  /\ kind' = k
  /\ rt' = old
  /\ old' = NIL
  /\ pc' = IF old = NIL THEN "clone" ELSE "drain"
  /\ UNCHANGED <<rtable, updates, flag, seed, ready, senderVars>>

\* Variant: the old table is emptied without waiting for its users.
DrainAtOnce ==
  /\ pc = "drain"
  /\ Purge(rt)
  /\ pc' = "clone"
  /\ UNCHANGED <<live, rtable, old, new, updates, flag, seed, ready, ack, rt,
                 kind, senderVars>>

\* prep_new_rt: once nobody uses the old table it is emptied.
Drain ==
  /\ pc = "drain"
  /\ refc[rt] = 0
  /\ Purge(rt)
  /\ pc' = "clone"
  /\ UNCHANGED <<live, rtable, old, new, updates, flag, seed, ready, ack, rt,
                 kind, senderVars>>

\* The table that prep_new_rt fills: the drained one, or one just allocated.
Target(t) == IF rt = NIL THEN t \in Tbl \ live ELSE t = rt

\* Variant: the shared entries are not counted.
CloneUncounted(t, copied) ==
  /\ live' = live \cup {t}
  /\ me' = IF "me" \in copied THEN [me EXCEPT ![t] = me[rtable]] ELSE me
  /\ ent' = IF "mt" \in copied THEN [ent EXCEPT ![t] = ent[rtable]] ELSE ent
  /\ UNCHANGED <<refs, val>>

\* uta_rt_clone of the spaces in copied from the active table into t.
CloneInto(t, copied) ==
  /\ live' = live \cup {t}
  /\ me' = IF "me" \in copied THEN [me EXCEPT ![t] = me[rtable]] ELSE me
  /\ IF "mt" \in copied
     THEN /\ ent' = [ent EXCEPT ![t] = ent[rtable]]
          /\ refs' = [r \in Rte |-> IF In(r, rtable) THEN refs[r] + 1 ELSE refs[r]]
     ELSE UNCHANGED <<ent, refs>>
  /\ UNCHANGED val

\* Variant: a new route table starts empty.
WantedNone == IF kind = "newrt" THEN {} ELSE {"me", "mt"}

\* The spaces a table of this kind starts with.
Wanted == IF kind = "newrt" THEN {"me"} ELSE {"me", "mt"}

\* The rest of prep_new_rt, and of the start record.  A space whose list of
\* things cannot be allocated is not copied, and the table is marked.
Clone ==
  /\ pc = "clone"
  /\ \E t \in Tbl, copied \in SUBSET Wanted :
       /\ copied # Wanted => CloneFails
       /\ Target(t)
       /\ CloneInto(t, copied)
       /\ err' = IF copied = Wanted THEN err ELSE err \cup {t}
       /\ refc' = [refc EXCEPT ![t] = 0]
       /\ new' = t
  /\ updates' = 0
  /\ rt' = NIL
  /\ pc' = "records"
  /\ UNCHANGED <<rtable, old, flag, seed, ready, ack, kind, held, use>>

\* A record for the table in progress; others are ignored.
Record(kinds) ==
  /\ pc = "records"
  /\ new # NIL
  /\ kind \in kinds
  /\ updates < MaxUpdates
  /\ updates' = updates + 1
  /\ UNCHANGED <<rtable, old, new, live, err, flag, seed, ready, ack, pc, rt,
                 kind, senderVars>>

\* rte and mse records (build_entry, uta_add_rte): the entry is new, and
\* del_rte is applied to the one it replaces.
AddRte(k, r, v) ==
  /\ Record({"newrt", "update"})
  /\ refs[r] = 0
  /\ refs' = [q \in Rte |-> IF q = r THEN 1
                            ELSE IF q = ent[new][k] THEN refs[q] - 1
                            ELSE refs[q]]
  /\ val' = [val EXCEPT ![r] = v]
  /\ ent' = [ent EXCEPT ![new][k] = r]
  /\ UNCHANGED me

\* del records (trash_entry).
DelRte(k) ==
  /\ Record({"newrt", "update"})
  /\ refs' = [q \in Rte |-> IF q = ent[new][k] THEN refs[q] - 1 ELSE refs[q]]
  /\ ent' = [ent EXCEPT ![new][k] = NIL]
  /\ UNCHANGED <<val, me>>

\* Records for other senders are counted and have no other effect.
SkipRecord ==
  /\ Record({"newrt", "update"})
  /\ UNCHANGED <<refs, val, ent, me>>

\* mme_ar (o is the owner) and mme_del (o is NIL) records.
SetMeid(m, o) ==
  /\ Record({"meid"})
  /\ me' = [me EXCEPT ![new][m] = o]
  /\ UNCHANGED <<refs, val, ent>>

\* An end record without a count, or with the right one: the table is rolled
\* in and acknowledged.
End ==
  /\ pc = "records"
  /\ new # NIL
  /\ Roll
  /\ ack' = "ok"
  /\ ready' = IF kind = "meid" THEN ready ELSE "yes"
  /\ flag' = IF kind = "newrt" THEN "full" ELSE flag
  /\ UNCHANGED <<updates, seed, pc, rt, kind, senderVars>>

\* An end record with another count than that of the records received.
EndMismatch ==
  /\ pc = "records"
  /\ new # NIL
  /\ DropNew
  /\ ack' = "err"
  /\ UNCHANGED <<rtable, old, updates, flag, seed, ready, pc, rt, kind,
                 senderVars>>

\* newrt|end|count or meid_map|end|count when no table was started: the count
\* is compared with that of a nil table.
EndLost ==
  /\ LostStart
  /\ pc = "records"
  /\ new = NIL
  /\ pc' = "crashed"
  /\ UNCHANGED <<rtable, old, new, tableVars, updates, flag, seed, ready, ack,
                 rt, kind, senderVars>>

\* rtc: the static table does not count as a full one.
SeedRead ==
  /\ pc = "records"
  /\ seed = "reading"
  /\ seed' = "done"
  /\ flag' = "none"
  /\ UNCHANGED <<rtable, old, new, tableVars, updates, ready, ack, pc, rt, kind,
                 senderVars>>

Collector ==
  \/ \E k \in Kinds : Start(k)
  \/ Drain
  \/ Clone
  \/ \E k \in Key, r \in Rte, v \in Val : AddRte(k, r, v)
  \/ \E k \in Key : DelRte(k)
  \/ SkipRecord
  \/ \E m \in Meid, o \in Owner \cup {NIL} : SetMeid(m, o)
  \/ End
  \/ EndMismatch
  \/ EndLost
  \/ SeedRead

Sender(s) ==
  \/ GetRt(s)
  \/ \E k \in Key : GetRte(s, k)
  \/ ReleaseRt(s)

Next == Collector \/ \E s \in Senders : Sender(s)

Spec == Init /\ [][Next]_vars

\* A sender that got a table releases it (every path of mtosend_msg does and
\* the sends it makes do not block for ever), and the collector runs; nothing
\* obliges the route manager to send a record.
FairSpec ==
  /\ Spec
  /\ WF_vars(Drain) /\ WF_vars(Clone)
  /\ \A s \in Senders : WF_vars(ReleaseRt(s))

-----------------------------------------------------------------------------
(* Properties.                                                             *)

\* Types; the counts rte->refs and ref_count never drop below zero.
TypeOK ==
  /\ rtable \in Tbl
  /\ {old, new, rt} \subseteq Tbl \cup {NIL}
  /\ live \subseteq Tbl
  /\ ent \in [Tbl -> [Key -> Rte \cup {NIL}]]
  /\ me \in [Tbl -> [Meid -> Owner \cup {NIL}]]
  /\ err \subseteq Tbl
  /\ refs \in [Rte -> Nat]
  /\ val \in [Rte -> Val]
  /\ updates \in 0 .. MaxUpdates
  /\ flag \in {"none", "full"}
  /\ seed \in {"reading", "done"}
  /\ ready \in {"no", "yes"}
  /\ ack \in {"none", "ok", "err"}
  /\ pc \in {"records", "drain", "clone", "crashed"}
  /\ kind \in Kinds
  /\ refc \in [Tbl -> Nat]
  /\ held \in [Senders -> Tbl \cup {NIL}]
  /\ use \in [Senders -> Rte \cup {NIL}]

\* A table a sender got from get_rt is the active one or the one that waits
\* to drain: it is never freed, emptied or filled again before release_rt.
HeldIsStable ==
  \A s \in Senders :
    held[s] # NIL =>
      /\ held[s] \in live \ err
      /\ held[s] # new
      /\ held[s] \in {rtable, old} \/ (pc = "drain" /\ held[s] = rt)

\* The reference count of an entry is the number of tables which map a key to
\* it, through any sequence of clones, replacements, deletions and drops: no
\* table refers to an entry that del_rte freed, and no entry leaks.
RefsExact ==
  \A r \in Rte : refs[r] = Cardinality({t \in live : In(r, t)})

\* The entry a sender found stays allocated while the sender works with it,
\* although the collector replaces, deletes and purges entries meanwhile.
EntryInUse == \A s \in Senders : use[s] # NIL => refs[use[s]] > 0

\* Every allocated table is reachable from the context (or from the local of
\* prep_new_rt) under one name only: none is leaked, freed twice, or both
\* active and under construction, whatever the order of the records.
TablesAccounted ==
  /\ live = {rtable, old, new, rt} \ {NIL}
  /\ old # rtable /\ new # rtable /\ rt # rtable
  /\ old # NIL => new = NIL
  /\ rt # NIL => old = NIL /\ new = NIL

\* ref_count is the number of senders which hold the table, so that the test
\* for zero in prep_new_rt means what it should.
CountsHolders ==
  \A t \in Tbl : refc[t] = Cardinality({s \in Senders : held[s] = t})

\* A new route table keeps the managed entities of the table it replaces and
\* a meid map keeps its routes: neither is lost by the roll.
OtherSpaceKept ==
  [][rtable' # rtable =>
       /\ kind = "newrt" => me'[rtable'] = me[rtable]
       /\ kind = "meid" => ent'[rtable'] = ent[rtable]]_vars

\* A record that arrives without the start of its table does no harm.
NoNilTable == pc # "crashed"

\* The routes in table t.
Content(t) ==
  [rt |-> [k \in Key |-> IF ent[t][k] = NIL THEN NIL ELSE val[ent[t][k]]],
   me |-> me[t]]

View == INSTANCE RouteView WITH
  current <- Content(rtable),
  view <- [s \in Senders |-> IF held[s] = NIL THEN NIL ELSE Content(held[s])],
  found <- [s \in Senders |-> IF use[s] = NIL THEN NIL ELSE val[use[s]]]

\* A sender routes with the complete routes that were in force when it called
\* get_rt, and the entry it found does not change under it.
ImplementsView == View!ViewSpec

\* prep_new_rt does not wait for ever: the old table drains, since get_rt
\* only hands out the active one.
DrainEnds == pc = "drain" ~> pc = "records"
=============================================================================
