------------------------------- MODULE Symtab -------------------------------
(***************************************************************************)
(* The symbol table (common/src/symtab.c): hash chains of doubly linked    *)
(* elements.  A class 0 key is a number, a key of another class a name.    *)
(* Route tables keep both kinds in one table: message types as numbers,    *)
(* managed entities as names.  The abstract table `bound` is updated       *)
(* beside the chains; the property compares the two.                       *)
(***************************************************************************)
EXTENDS Integers, FiniteSets, SequencesExt

CONSTANTS
  SymKeys,     \* <<class, number or name>>
  SymVals,
  SymSize,     \* chains
  HashOf,      \* sym_hash of the names; numbers hash to their remainder
  FirstAlloc   \* room for things to begin with (2048)

NoVal == "nil"

VARIABLES
  symlist,     \* per chain: its first element, 0 if none
  ele,         \* elements in use: key, nkey, val, next, prev
  inhabitants,
  missed,      \* allocations that failed
  bound,       \* what each key should be bound to
  mixed        \* number 0 was used while a name was in its chain

yvars == <<symlist, ele, inhabitants, missed, bound, mixed>>

Chains == 0 .. SymSize - 1
Nodes == 1 .. Cardinality(SymKeys)

SymInit ==
  /\ symlist = [h \in Chains |-> 0]
  /\ ele = [n \in {} |-> 0]
  /\ inhabitants = 0 /\ missed = 0
  /\ bound = [k \in SymKeys |-> NoVal]
  /\ mixed = "no"

Class(k) == k[1]

Hash(k) == IF Class(k) = 0 THEN k[2] % SymSize ELSE HashOf[k[2]]

(* same() for names; for numbers only nkey is compared, which is 0 in the   *)
(* element of a name                                                        *)
Same(n, k) == IF Class(k) = 0 THEN ele[n].nkey = k[2] ELSE ele[n].key = k

RECURSIVE Search(_, _)
Search(n, k) ==
  IF n = 0 THEN 0 ELSE IF Same(n, k) THEN n ELSE Search(ele[n].next, k)

Lookup(k) == Search(symlist[Hash(k)], k)

Get(k) == IF Lookup(k) = 0 THEN NoVal ELSE ele[Lookup(k)].val

Clash(k) ==
  /\ k = <<0, 0>>
  /\ \E n \in DOMAIN ele : Class(ele[n].key) # 0 /\ Hash(ele[n].key) = 0

(* putin, an element found: the value is replaced *)
Replace(k, v) ==
  /\ Lookup(k) # 0
  /\ ele' = [ele EXCEPT ![Lookup(k)].val = v]
  /\ UNCHANGED <<symlist, inhabitants>>

(* putin, none found: a new head of the chain *)
AddBare(k, v) ==
  /\ Lookup(k) = 0
  /\ LET h   == Hash(k)
         n   == CHOOSE i \in Nodes \ DOMAIN ele : \A j \in Nodes \ DOMAIN ele : i <= j
         new == [key |-> k, nkey |-> IF Class(k) = 0 THEN k[2] ELSE 0, val |-> v,
                 next |-> symlist[h], prev |-> 0]
     IN /\ ele' = [i \in DOMAIN ele \cup {n} |-> IF i = n THEN new ELSE ele[i]]
        /\ symlist' = [symlist EXCEPT ![h] = n]
  /\ inhabitants' = inhabitants + 1
Add(k, v) ==
  /\ Lookup(k) = 0
  /\ LET h   == Hash(k)
         n   == CHOOSE i \in Nodes \ DOMAIN ele : \A j \in Nodes \ DOMAIN ele : i <= j
         new == [key |-> k, nkey |-> IF Class(k) = 0 THEN k[2] ELSE 0, val |-> v,
                 next |-> symlist[h], prev |-> 0]
     IN /\ ele' = [i \in DOMAIN ele \cup {n} |->
                     IF i = n THEN new
                     ELSE IF i = symlist[h] THEN [ele[i] EXCEPT !.prev = n]
                     ELSE ele[i]]
        /\ symlist' = [symlist EXCEPT ![h] = n]
  /\ inhabitants' = inhabitants + 1

Note(k) == mixed' = IF Clash(k) THEN "yes" ELSE mixed

(* rmr_sym_put and rmr_sym_map *)
PutIn ==
  \E k \in SymKeys, v \in SymVals :
    /\ Replace(k, v) \/ Add(k, v)
    /\ bound' = [bound EXCEPT ![k] = v]
    /\ Note(k)
    /\ UNCHANGED missed

(* no memory for the element: it is counted all the same *)
PutNoMem ==
  \E k \in SymKeys :
    /\ Lookup(k) = 0 /\ missed = 0
    /\ inhabitants' = inhabitants + 1 /\ missed' = missed + 1
    /\ Note(k)
    /\ UNCHANGED <<symlist, ele, bound>>

(* del_ele: the neighbours, or the chain's head, are linked past it *)
Unlink(n, h) ==
  LET p == ele[n].prev
      s == ele[n].next
  IN /\ symlist' = IF p = 0 THEN [symlist EXCEPT ![h] = s] ELSE symlist
     /\ ele' = [i \in DOMAIN ele \ {n} |->
                  [ele[i] EXCEPT !.next = IF i = p THEN s ELSE @,
                                 !.prev = IF i = s THEN p ELSE @]]

(* rmr_sym_del and rmr_sym_ndel *)
SymDel ==
  \E k \in SymKeys :
    /\ Lookup(k) # 0
    /\ Unlink(Lookup(k), Hash(k))
    /\ inhabitants' = inhabitants - 1
    /\ bound' = [bound EXCEPT ![k] = NoVal]
    /\ Note(k)
    /\ UNCHANGED missed

(* del_head_ele, on the table t *)
DelHeadEle(t, h) ==
  LET n == t.symlist[h]
      s == t.ele[n].next
  IN [symlist |-> [t.symlist EXCEPT ![h] = s],
      ele |-> [i \in DOMAIN t.ele \ {n} |->
                 IF i = s THEN [t.ele[i] EXCEPT !.prev = 0] ELSE t.ele[i]],
      inhabitants |-> t.inhabitants - 1]

RECURSIVE Clear(_)
Clear(t) ==
  LET heads == {h \in Chains : t.symlist[h] # 0}
  IN IF heads = {} THEN t
     ELSE Clear(DelHeadEle(t, CHOOSE h \in heads : \A i \in heads : h <= i))

(* rmr_sym_clear takes head after head; also rmr_sym_free and a new table *)
SymClear ==
  /\ ele # <<>>
  /\ LET t == Clear([symlist |-> symlist, ele |-> ele, inhabitants |-> inhabitants])
     IN symlist' = t.symlist /\ ele' = t.ele /\ inhabitants' = t.inhabitants
  /\ bound' = [k \in SymKeys |-> NoVal]
  /\ UNCHANGED <<missed, mixed>>

(* rmr_sym_foreach_class: the elements the callback gets, in order; the     *)
(* next one is noted before, so it may delete the one it is given           *)
RECURSIVE Walk(_, _)
Walk(n, c) ==
  IF n = 0 THEN <<>>
  ELSE (IF Class(ele[n].key) = c THEN <<n>> ELSE <<>>) \o Walk(ele[n].next, c)

Visited(c) == FlattenSeq([h \in 1 .. SymSize |-> Walk(symlist[h - 1], c)])

(* the callback with which a space of a route table is collected for its    *)
(* clone; the list is extended as soon as it is full                        *)
ExtendThings(tl) == [tl EXCEPT !.nalloc = @ + @ \div 2]

CollectThings(tl, n) ==
  LET one == [tl EXCEPT !.things = Append(@, ele[n])]
  IN IF Len(one.things) >= one.nalloc THEN ExtendThings(one) ELSE one

Things(c) == FoldLeft(CollectThings, [things |-> <<>>, nalloc |-> FirstAlloc], Visited(c))

(* what follows a use of number 0 beside a name is not followed *)
SymNext == mixed = "no" /\ (PutIn \/ PutNoMem \/ SymDel \/ SymClear)

SymSpec == SymInit /\ [][SymNext]_yvars

-----------------------------------------------------------------------------
(* Through puts, replacements, deletions and clears, in any order and with  *)
(* keys that share a chain, each key is found with the value it was last    *)
(* given and no other, a clone of a class gets each of its keys once with   *)
(* its value, in a list that has room for the next, and the count of        *)
(* inhabitants is right but for failed allocations.  The number 0 is an     *)
(* exception once a name is in its chain: class 0 searches compare nkey     *)
(* alone, and a name's element has nkey 0.                                  *)
SymtabIsMap ==
  mixed = "no" =>
    /\ \A k \in SymKeys : Clash(k) \/ Get(k) = bound[k]
    /\ \A c \in {Class(k) : k \in SymKeys} :
         LET tl   == Things(c)
             keys == {k \in SymKeys : Class(k) = c /\ bound[k] # NoVal}
         IN /\ {<<tl.things[i].key, tl.things[i].val>> : i \in DOMAIN tl.things}
                 = {<<k, bound[k]>> : k \in keys}
            /\ Len(tl.things) = Cardinality(keys)
            /\ Len(tl.things) < tl.nalloc
    /\ inhabitants = Cardinality(DOMAIN ele) + missed
=============================================================================
