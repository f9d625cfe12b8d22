------------------------------ MODULE BindList ------------------------------
(****************************************************************************)
(* The listen addresses of a configuration file (bind.go): how a value in   *)
(* JSON or YAML becomes a list, and how a list is written again.            *)
(*                                                                          *)
(* An entry of the file is a record [host, port, form]: form is "canonical" *)
(* for what net.JoinHostPort writes, "other" for another spelling of the    *)
(* same address (blanks around it, brackets that are not needed), "blank"   *)
(* for nothing but blanks and "broken" for what net.SplitHostPort refuses.  *)
(* The port "" is one that is not given.  A value of the file is a record   *)
(* [kind, entries]: kind "null", "scalar" with one entry, or "array".       *)
(****************************************************************************)
EXTENDS Naturals, Sequences

Nil == <<>>
Error == <<[host |-> "", port |-> "", form |-> "broken"]>>

Parses(entry) == entry.form \in {"canonical", "other"} /\ entry.port # ""
Canonical(entry) == [host |-> entry.host, port |-> entry.port, form |-> "canonical"]

(* parseBindList: no entry is bad, and no two name one address.             *)
Good(ss) ==
    /\ ss # <<>>
    /\ \A i \in DOMAIN ss : Parses(ss[i])
    /\ \A i, j \in DOMAIN ss : Canonical(ss[i]) = Canonical(ss[j]) => i = j
parseBindList(ss) ==
    IF Good(ss) THEN [i \in 1..Len(ss) |-> Canonical(ss[i])] ELSE Error

UnmarshalJSON(value) ==
    IF value.kind = "null" THEN Nil ELSE parseBindList(value.entries)

(* An empty scalar is no list in YAML, and an error in JSON.                *)
UnmarshalYAML(value) ==
    IF value.kind = "null" \/ (value.kind = "scalar" /\ value.entries[1].form = "blank")
    THEN Nil ELSE parseBindList(value.entries)

MarshalJSON(b) ==
    [kind |-> CASE Len(b) = 0 -> "null" [] Len(b) = 1 -> "scalar" [] OTHER -> "array",
     entries |-> b]

bindsEqual(a, b) ==
    /\ Len(a) = Len(b)
    /\ \A i \in 1..Len(a) : a[i] = b[i]

-----------------------------------------------------------------------------
(* No address twice: two listeners on one would fail, after the first has   *)
(* been opened (bind.go:91-94).                                             *)
NoAddressTwice(ss) ==
    LET b == parseBindList(ss) IN
    b # Error => \A i, j \in 1..Len(b) :
                    b[i].host = b[j].host /\ b[i].port = b[j].port => i = j

(* What a server writes as its configuration it reads as the same list      *)
(* (bind.go:37-45 against bind.go:17-34).                                   *)
WrittenIsRead(ss) ==
    parseBindList(ss) # Error
        => UnmarshalJSON(MarshalJSON(parseBindList(ss))) = parseBindList(ss)

(* A file that only respells its addresses is no change (bind.go:90,        *)
(* config.go:192).                                                          *)
RespelledIsEqual(ss, tt) ==
    (/\ Len(ss) = Len(tt)
     /\ \A i \in 1..Len(ss) : Canonical(ss[i]) = Canonical(tt[i])
     /\ parseBindList(ss) # Error
     /\ parseBindList(tt) # Error)
    => bindsEqual(parseBindList(ss), parseBindList(tt))
=============================================================================
