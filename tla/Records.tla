------------------------------ MODULE Records ------------------------------
(***************************************************************************)
(* From text to route table records and entries                            *)
(* (common/src/rt_generic_static.c, tools_static.c; uta_add_ep of          *)
(* si/src/rtable_si_static.c).  A text is a sequence of atoms: separators, *)
(* white space, the comment sign, and words that are never looked into.    *)
(* Only reading is modelled here; what records do to tables is RouteTable's *)
(* and Collector's.                                                        *)
(*                                                                         *)
(* The environment writes a text atom by atom: the endpoints of an entry   *)
(* ("rr"), its type and senders ("ts"), or a seed file, which may as well  *)
(* arrive as a message ("file").  Every text is judged.                    *)
(***************************************************************************)
EXTENDS Integers, Sequences, FiniteSets, SequencesExt

CONSTANTS
  Atoms,         \* per kind of text: what it is written with
  Starts,        \* bound: kind and start of a text, and how much is written after
  MyName,        \* ctx->my_name
  Interfaces,    \* getifaddrs: sequence of [dev, fam, ip]
  BindIf,        \* RMR_BIND_IF: [set "no", "ip" or "dev", val]
  MaxAddrs,      \* addresses kept of the interfaces (128)
  MaxFields,     \* tokens of a record (128)
  MaxSenders,    \* tokens of the sender list (127)
  MaxGroups,     \* tokens of the group list (64)
  MaxToks,       \* tokens of a group (64)
  MaxEpGroup     \* MAX_EP_GROUP, endpoints of a group

VARIABLES kind, text, left

tvars == <<kind, text, left>>

NL == "nl"
CR == "cr"
Space(c) == c \in {" ", CR, NL}

(***************************************************************************)
(* Our own addresses.                                                      *)
(***************************************************************************)

(* mk_ip_list: the address given; else those of the device given, or of all *)
(* but the loopback, in the families known, as far as there is room.  The   *)
(* port that is put behind each is not modelled.                            *)
Captured(f) ==
  /\ f.dev # "lo" /\ (BindIf.set = "no" \/ f.dev = BindIf.val)
  /\ f.fam \in {"v4", "v6"}

MkIpList ==
  IF BindIf.set = "ip" THEN <<BindIf.val>>
  ELSE LET c == SelectSeq(Interfaces, Captured)
       IN [i \in 1 .. IF Len(c) < MaxAddrs THEN Len(c) ELSE MaxAddrs |-> c[i].ip]

IsThisMyip(tok) == \E i \in DOMAIN MkIpList : tok = <<MkIpList[i]>>

(***************************************************************************)
(* Splitting.                                                              *)
(***************************************************************************)
After(s, i) == SubSeq(s, i + 1, Len(s))

At(s, c) == SelectInSeq(s, LAMBDA x : x = c)

(* at most max pieces; the last is what is left, separators and all *)
RECURSIVE Split(_, _, _)
Split(s, sep, max) ==
  LET i == At(s, sep) IN
  IF max > 1 /\ i # 0 THEN <<SubSeq(s, 1, i - 1)>> \o Split(After(s, i), sep, max - 1)
  ELSE <<s>>

Tokenise(s, sep, max) == IF s = <<>> THEN <<>> ELSE Split(s, sep, max)

RmipTokenise(s, max, sep) ==
  SelectSeq(Tokenise(s, sep, max), LAMBDA t : ~IsThisMyip(t))

HasStr(s, str, sep, max) ==
  max >= 2 /\ Contains(Tokenise(s, sep, max), str)

HasMyip(s, sep, max) ==
  max >= 2 /\ \E i \in DOMAIN Tokenise(s, sep, max) : IsThisMyip(Tokenise(s, sep, max)[i])

LTrim(s) ==
  LET i == SelectInSeq(s, LAMBDA c : ~Space(c)) IN IF i = 0 THEN <<>> ELSE After(s, i - 1)

RTrim(s) ==
  LET i == SelectLastInSeq(s, LAMBDA c : ~Space(c)) IN SubSeq(s, 1, i)

(* only the first comment sign of the field is looked at *)
Clip(s) ==
  LET b == LTrim(s)
      h == At(b, "#")
  IN IF h = 1 THEN b
     ELSE RTrim(IF h > 1 /\ Space(b[h - 1]) THEN SubSeq(b, 1, h - 1) ELSE b)

(***************************************************************************)
(* An entry.                                                               *)
(***************************************************************************)
NilEp == <<"nil">>
NoGroup == [made |-> "no", epts |-> <<>>]

(* rt_ensure_ep: no endpoint for an empty name *)
EnsureEp(name) == IF name = <<>> THEN NilEp ELSE name

(* uta_add_ep: the slot is taken whether there is an endpoint or not *)
AddEp(rrgroups, name, group) ==
  IF Len(rrgroups[group].epts) >= MaxEpGroup THEN rrgroups
  ELSE [g \in DOMAIN rrgroups |->
          IF g # group THEN rrgroups[g]
          ELSE [made |-> "yes", epts |-> Append(rrgroups[g].epts, EnsureEp(name))]]

(* the names of a group that are neither one of our addresses nor our name *)
OthersOf(gtext) == SelectSeq(RmipTokenise(gtext, MaxToks, ","), LAMBDA n : n # MyName)

AddNames(st, names) == FoldLeft(LAMBDA g, n : AddEp(g, n, st.cgidx), st.groups, names)

(* one group of the list goes to group cgidx of the entry, which stays the  *)
(* next one's if nothing was added; variant: it takes its place all the same *)
AddGroupSparse(st, gtext) ==
  [groups |-> AddNames(st, OthersOf(gtext)), cgidx |-> st.cgidx + 1]
AddGroup(st, gtext) ==
  [groups |-> AddNames(st, OthersOf(gtext)),
   cgidx  |-> IF OthersOf(gtext) = <<>> THEN st.cgidx ELSE st.cgidx + 1]

(* the senders: none named, our name or one of our addresses *)
ForUs(ts) ==
  LET s == Clip(ts)
  IN \/ At(s, ",") = 0
     \/ HasStr(s, MyName, ",", MaxSenders)
     \/ HasMyip(s, ",", MaxSenders)

(* rrgroups of the entry that build_entry makes; with "%meid" it has none *)
BuildEntry(rr) ==
  LET g    == Tokenise(Clip(rr), ";", MaxGroups)
      meid == g # <<>> /\ g[1] = <<"%meid">>
      made == FoldLeft(AddGroup,
                       [groups |-> [i \in DOMAIN g |-> NoGroup], cgidx |-> 1], g)
  IN IF meid THEN <<>> ELSE made.groups

(* uta_epsock_rr's more: the groups that the loop of mtosend_msg gets to *)
Reached(rrgroups) ==
  SubSeq(rrgroups, 1,
         SelectInSeq(Append(rrgroups, NoGroup), LAMBDA g : g.made = "no") - 1)

(***************************************************************************)
(* Records.                                                                *)
(***************************************************************************)
Op(o) == [op |-> o, ts |-> <<>>, rr |-> <<>>]
Nothing == Op("nothing")
\* a field that is not there is looked at
NilField == Op("nil field")

EntryOf(ts, rr) == [op |-> "entry", ts |-> ts, rr |-> rr]

DelRec(t) == IF Len(t) < 3 THEN Nothing ELSE [op |-> "del", ts |-> t[2], rr |-> <<>>]

NewrtRec(t) ==
  IF Len(t) < 2 THEN NilField
  ELSE IF t[2] = <<"end">> THEN Op("end") ELSE Op("start")

UpdateRec(t) ==
  IF Len(t) < 2 THEN NilField
  ELSE IF t[2] = <<"end">> THEN Op("update end") ELSE Op("update start")

MeidRec(t) ==
  IF Len(t) < 2 THEN Nothing
  ELSE CASE t[1] = <<"meid_map">> ->
              (CASE t[2] = <<"start">> -> Op("map start")
                 [] t[2] = <<"end">>   -> Op("map end")
                 [] OTHER              -> Nothing)
         [] t[1] = <<"mme_ar">> /\ Len(t) > 2 -> [op |-> "owner", ts |-> t[2], rr |-> t[3]]
         [] t[1] = <<"mme_del">> -> [op |-> "disown", ts |-> <<>>, rr |-> t[2]]
         [] OTHER -> Nothing

MseRec(t) ==
  IF t[1] = <<"mse">>
  THEN IF Len(t) < 4 THEN Nothing ELSE EntryOf(t[2], t[4])
  ELSE MeidRec(t)

RteRec(t) == IF Len(t) < 3 THEN NilField ELSE EntryOf(t[2], t[3])

(* parse_rt_rec for a full table and one in progress: the record is known   *)
(* by the first letter of its first field; a field is clipped for its use   *)
ParseRtRec(line) ==
  LET raw  == Tokenise(RTrim(LTrim(line)), "|", MaxFields)
      t    == [i \in DOMAIN raw |-> Clip(raw[i])]
      word == IF t = <<>> \/ t[1] = <<>> THEN "" ELSE t[1][1]
  IN CASE word \in {"", "#"} -> Nothing
       [] word = "del"     -> DelRec(t)
       [] word = "newrt"   -> NewrtRec(t)
       [] word \in {"mse", "meid_map", "mme_ar", "mme_del"} -> MseRec(t)
       [] word = "rte"     -> RteRec(t)
       [] word = "update"  -> UpdateRec(t)
       [] OTHER            -> Nothing

(***************************************************************************)
(* A seed file and a message.                                              *)
(***************************************************************************)

(* the bytes of the file up to the size it had when it was looked at, which *)
(* is 8192 if that failed; a missing or empty file is an empty buffer       *)
Fib(file, size) == IF size <= 0 THEN <<>> ELSE SubSeq(file, 1, Min({size, Len(file)}))

\* Variant: the text is taken as it is.
EnsureNltermNot(s) == s
EnsureNlterm(s) == IF s = <<>> THEN <<NL>> ELSE IF Last(s) # NL THEN Append(s, NL) ELSE s

Parsed(lines) == [i \in DOMAIN lines |-> ParseRtRec(lines[i])]

(* the records up to one without a newline, at which reading stops *)
ReadStaticRt(s) ==
  LET fbuf == ReplaceAll(EnsureNlterm(s), CR, NL)
  IN Parsed(Front(Split(fbuf, NL, Len(fbuf) + 1)))

RtcParseMsg(s) == Parsed(Split(s, NL, Len(s) + 1))

-----------------------------------------------------------------------------
TextInit ==
  \E s \in Starts : kind = s.kind /\ text = s.text /\ left = s.left

WriteAtom ==
  /\ left > 0 /\ left' = left - 1
  /\ \E a \in Atoms[kind] : text' = Append(text, a)
  /\ UNCHANGED kind

-----------------------------------------------------------------------------
(* What stands between the separators, however much it is. *)
Parts(s, sep) ==
  LET cuts == {0, Len(s) + 1} \cup {i \in DOMAIN s : s[i] = sep}
      next(i) == CHOOSE j \in cuts : j > i /\ \A k \in cuts : k > i => j <= k
  IN [i \in cuts \ {Len(s) + 1} |-> SubSeq(s, i + 1, next(i) - 1)]

Ordered(f) == LET d == SetToSortSeq(DOMAIN f, <) IN [i \in DOMAIN d |-> f[d[i]]]

Mine(n) == n = MyName \/ IsThisMyip(n)

Listed(g) ==
  LET n == SelectSeq(Ordered(Parts(g, ",")), LAMBDA x : ~Mine(x))
  IN SubSeq(n, 1, IF Len(n) < MaxEpGroup THEN Len(n) ELSE MaxEpGroup)

(* The lists of a record mean what they say.  A send by the entry reaches,  *)
(* group by group, the endpoints that the record lists but for ourselves,   *)
(* though groups that vanish leave no gap in the entry (uta_epsock_rr takes *)
(* the first empty one for the end); and an entry is taken exactly if it    *)
(* names no senders or us among them.  Within the limits on tokens, beyond  *)
(* which the last one keeps its separators; and an empty name is a nil      *)
(* endpoint of its group, which uta_epsock_rr would dereference.            *)
EntryAsWritten ==
  /\ kind = "rr" /\ Cardinality({i \in DOMAIN text : text[i] = ";"}) < MaxGroups =>
       LET rr     == Clip(text)
           groups == Ordered(Parts(rr, ";"))
           want   == SelectSeq([i \in DOMAIN groups |-> IF groups[i] = <<>> THEN <<>>
                                                         ELSE Listed(groups[i])],
                               LAMBDA g : g # <<>>)
           got    == Reached(BuildEntry(text))
       IN (\A i \in DOMAIN groups : Len(Ordered(Parts(groups[i], ","))) <= MaxToks)
            /\ groups[1] # <<"%meid">> =>
          /\ [i \in DOMAIN got |-> got[i].epts] =
               [i \in DOMAIN want |-> [j \in DOMAIN want[i] |-> EnsureEp(want[i][j])]]
          /\ \A i \in DOMAIN BuildEntry(text) :
               BuildEntry(text)[i].made = "yes" <=> i <= Len(want)
  /\ kind = "ts" /\ Cardinality({i \in DOMAIN text : text[i] = ","}) < MaxSenders =>
       LET names == Ordered(Parts(Clip(text), ","))
       IN ForUs(text) <=> Len(names) = 1 \/ \E i \in DOMAIN names : Mine(names[i])

Records(s) == SelectSeq(s, LAMBDA r : r # Nothing)

(* A table is the same table whether it is read from a seed file or comes   *)
(* in a message: the same records in the same order, with or without a      *)
(* final newline, unless a carriage return stands inside a line (a line     *)
(* end in a file, white space in a message).  And a seed file that is read  *)
(* while it is being written (rtc_file reads it every minute) yields the    *)
(* records it will have, but for the last: that one may be cut short, even  *)
(* before a field that rte, newrt and update records use unseen.            *)
SameTable ==
  kind = "file" =>
    LET read == [n \in 0 .. Len(text) |-> ReadStaticRt(Fib(text, n))] IN
    /\ (\A i \in DOMAIN text : text[i] = CR => i = Len(text) \/ text[i + 1] = NL) =>
         Records(read[Len(text)]) = Records(RtcParseMsg(text))
    /\ \A n \in DOMAIN text : IsPrefix(Front(read[n]), read[Len(text)])
=============================================================================
