----------------------------- MODULE AtDispatch -----------------------------
(***************************************************************************)
(* How at_cmd_handler of at_server finds the handler of a command line:    *)
(* four parsers, each with a table, tried in order; within a table the     *)
(* first entry that matches wins.  Pure operators.  A line is given in the *)
(* case of the tables (the comparison folds it) and ends with its carriage *)
(* return, which at_data_handler stores and counts like any other byte;    *)
(* its parameters are cut to the first character.                          *)
(***************************************************************************)
EXTENDS Integers, Sequences, FiniteSets

OpenThreadTable ==
  <<"AT+EUI", "AT+SCAN", "AT+STATE", "AT+IPADDR", "AT+PING", "AT+SED", "AT+JOIN",
    "AT+SNTP", "AT+FRST">>
CoapTable == <<"AT+COAPGET", "AT+COAPPOST", "AT+COAPTB">>
Lwm2mTable ==
  <<"AT+LWEVENT", "AT+LWSTATE", "AT+LWSER", "AT+LWOBJ", "AT+LWVSTR", "AT+LWVBOOL",
    "AT+LWVS", "AT+LWVSS", "AT+LWVSSS", "AT+LWVSSSS",
    "AT+LWVU", "AT+LWVUU", "AT+LWVUUU", "AT+LWVUUUU", "AT+LWVF", "AT+LWVFF">>
SystemTable == <<"AT", "ATE0", "ATE1", "AT+RST", "AT+GMR">>

(* The parsers, in the order of at_cmd_parsers. *)
Commands == OpenThreadTable \o CoapTable \o Lwm2mTable \o SystemTable
Names    == {Commands[i] : i \in DOMAIN Commands}
NotFound == "none"

(* The characters of a name; lines are sequences of characters. *)
Letters(name) == [k \in 1 .. Len(name) |-> SubSeq(name, k, k)]
Spelled == [i \in DOMAIN Commands |-> Letters(Commands[i])]

IsPrefixOf(name, line) ==
  Len(name) <= Len(line) /\ SubSeq(line, 1, Len(name)) = name

(* Mutant: the comparison the source has in a comment. *)
MatchesLoosely(line, name) ==
  /\ IsPrefixOf(name, line)
  /\ Len(line) > Len(name) + 2 =>
       line[Len(name) + 1] \in {"=", "?"}

(* app_at_modem_cmd_casecmp: a line that exceeds the name by two or more  *)
(* must go on with = or ?.  One character more is the carriage return.    *)
Matches(line, name) ==
  /\ IsPrefixOf(name, line)
  /\ Len(line) > Len(name) + 1 =>
       line[Len(name) + 1] \in {"=", "?"}

(* The entry whose handler runs. *)
Dispatch(line) ==
  LET hits == {i \in DOMAIN Commands : Matches(line, Spelled[i])}
  IN IF hits = {} THEN NotFound
     ELSE Commands[CHOOSE i \in hits : \A j \in hits : i <= j]

(* What follows the name: nothing, parameters, a question mark, a slip. *)
CR   == "CR"
Bare == <<>>
Set  == <<"=", "1">>
Read == <<"?">>
Slip == <<"X">>
Tails == {Bare, Set, Read, Slip}

(* at_buf as at_cmd_handler gives it to the parsers. *)
Line(name, tail) == Letters(name) \o (tail \o <<CR>>)

(* What the provers cannot see of the tables, for which a string is opaque: *)
(* its characters.  No name has one that may follow a name, and no two     *)
(* entries are spelled alike.                                              *)
ASSUME Spelling ==
  /\ \A i \in DOMAIN Commands :
       /\ Len(Commands[i]) \in Nat
       /\ \A k \in 1 .. Len(Commands[i]) :
            SubSeq(Commands[i], k, k) \in STRING \ {"=", "?", "X", CR}
  /\ \A i, j \in DOMAIN Commands :
       Spelled[i] = Spelled[j] => i = j

(* Reference: a name alone, with parameters or with a question mark asks   *)
(* for that command; nothing else asks for any.                            *)
Meant(name, tail) == IF tail = Slip THEN NotFound ELSE name
=============================================================================
