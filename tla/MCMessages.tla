----------------------------- MODULE MCMessages -----------------------------
(***************************************************************************)
(* Components that share no state are checked side by side: a behaviour is *)
(* one of the river, of the send path, of the symbol table, of the text of *)
(* records, of a header or of a context, and leaves the others in their    *)
(* initial state.                                                          *)
(***************************************************************************)
EXTENDS River, Send, Symtab, Records, Header, Context, TLC

VARIABLE part

mvars == <<rvars, svars, yvars, tvars, hvars, xvars, part>>

(* Of the parts that have many initial states one is taken, but in its own  *)
(* behaviours.                                                              *)
FirstText == kind = "rr" /\ text = <<>>
FirstHeader == head = Cleared /\ \A n \in Lengths : given.len <= n

Init ==
  /\ RiverInit /\ SendInit /\ SymInit /\ TextInit /\ HeaderInit
  /\ ContextInit
  /\ part \in {"river", "send", "symtab", "records", "header", "context"}
  /\ part # "records" => FirstText
  /\ part # "header" => FirstHeader

RiverStep ==
  part = "river" /\ RiverNext /\ UNCHANGED <<svars, yvars, tvars, hvars, xvars, part>>
SendStep ==
  part = "send" /\ SendNext /\ UNCHANGED <<rvars, yvars, tvars, hvars, xvars, part>>
SymtabStep ==
  part = "symtab" /\ SymNext /\ UNCHANGED <<rvars, svars, tvars, hvars, xvars, part>>
RecordsStep ==
  part = "records" /\ WriteAtom /\ UNCHANGED <<rvars, svars, yvars, hvars, xvars, part>>
HeaderStep ==
  part = "header" /\ HeaderNext /\ UNCHANGED <<rvars, svars, yvars, tvars, xvars, part>>
ContextStep ==
  part = "context" /\ ContextNext /\ UNCHANGED <<rvars, svars, yvars, tvars, hvars, part>>

Next ==
  \/ RiverStep \/ SendStep \/ SymtabStep
  \/ RecordsStep \/ HeaderStep \/ ContextStep

Spec == Init /\ [][Next]_mvars

(* River: an empty payload, a frame larger than a fresh accumulator, one    *)
(* that claims more than it holds, one with a negative size                 *)
MCSize == <<2, 6, 3, 4>>
MCClaim == <<2, 6, 9, 4>>
MCOff == <<0, 2, 8, 11, 15>>

(* Send: an entry without endpoints (meid routed), and three groups of two, *)
(* no and one endpoints                                                     *)
MCEntries == {<<>>, <<2, 0, 1>>}
MCTimeouts == {-1, 1}

(* Symtab: a number and two classes of a name in a chain, a number beside it *)
MCSymKeys == {<<0, 0>>, <<0, 1>>, <<1, "a">>, <<2, "a">>}
MCHashOf == [a |-> 0]

(* Records: lists of endpoints and of senders, short files, and longer ones *)
(* of one record each                                                       *)
MCAtoms ==
  [rr   |-> {"a", "b", "me", "ip", ",", ";", "%meid"},
   ts   |-> {"5", "me", "ip", "x", ",", " ", "#"},
   file |-> {"rte", "newrt", "end", "x", "|", " ", "#", NL, CR}]
MCText(k, t, n) == [kind |-> k, text |-> t, left |-> n]
MCStarts ==
  {MCText("rr", <<>>, 5), MCText("ts", <<>>, 4), MCText("file", <<>>, 4)}
    \cup {MCText("file", <<w, "|">>, 3) :
            w \in {"rte", "update", "meid_map", "mme_ar", "mme_del"}}
    \cup {MCText("file", <<w, "|", "x", "|", "x">>, 3) : w \in {"mse", "del", "rte"}}
MCInterfaces ==
  <<[dev |-> "lo", fam |-> "v4", ip |-> "x"], [dev |-> "eth", fam |-> "v6", ip |-> "ip"],
    [dev |-> "eth", fam |-> "other", ip |-> "b"]>>
MCBindIf == [set |-> "no", val |-> ""]
MCMyName == <<"me">>

(* Header: a name that just fits *)
MCSrcName == <<"a", "b">>
MCSrcIp == <<"b">>
=============================================================================
