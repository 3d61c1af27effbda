------------------------------ MODULE AtLwm2m -------------------------------
(***************************************************************************)
(* The LwM2M commands of at_server (at_lwm2m.c) with the client they start *)
(* (app_lwm2m.c), reached through the command tables.  A command runs to   *)
(* its end in the work queue, without sleeping: it is one step, but for    *)
(* AT+LWSER=, which is cut where it has written flash.  The engine's       *)
(* thread reports events; the device may restart at any time, and then     *)
(* starts the client for the server in flash.                              *)
(*                                                                         *)
(* The engine is external.  Of it the model keeps the resources the code   *)
(* writes for the server, one typed resource, and that a client context    *)
(* zeroed while the engine uses it reports nothing more.                   *)
(***************************************************************************)
EXTENDS AtDispatch, LwValue

CONSTANTS
  Addrs,       \* server addresses that are not empty
  Keys,        \* pre-shared keys
  WordValues,  \* bound: the numbers a host writes
  NoServer     \* what flash holds before the first AT+LWSER

Empty == "empty"   \* the address of a command that gives ""
Junk  == "junk"    \* what an uninitialised key holds
Off   == "off"

(* An address and how it is protected: without a key, by one with an       *)
(* identity, or by one whose identity is empty.                            *)
Settings ==
  [boot : BOOLEAN, addr : Addrs \cup {Empty}, psk : {Off, "on", "unnamed"},
   key : Keys \cup {Junk}]

ASSUME AtLwm2mAssumption ==
  /\ Empty \notin Addrs /\ Junk \notin Keys
  /\ NoServer \notin Settings
  /\ WordValues \subseteq 0 .. (2^Word - 1)

VARIABLES
  flash,     \* the settings of the server that are stored
  pending,   \* AT+LWSER= behind its save: its settings, and whether it succeeded
  res,       \* resources of objects 0 and 1
  client,    \* the client: off, on, or wiped under the running engine
  event,     \* client_event: last event reported
  cell,      \* the resource last written, with the numbers that were given
  answer,    \* the last command: line, entry found, final line
  told,      \* ghost: settings of the last AT+LWSER that was answered OK
  strayed,   \* ghost: their save failed, or later ones were saved that had no OK
  restarted, \* ghost: there has been a restart since that answer
  wasBoot    \* ghost: a bootstrap server has been set since the restart

server == <<flash, pending, res, client, event, told, strayed, restarted, wasBoot>>
vars == <<flash, pending, res, client, event, cell, answer, told, strayed, restarted,
          wasBoot>>

Resources ==
  [url : Addrs \cup {Off}, secure : BOOLEAN, key : Keys \cup {Off},
   boot : BOOLEAN, short : BOOLEAN, second : BOOLEAN]
Fresh == [url |-> Off, secure |-> FALSE, key |-> Off, boot |-> FALSE,
          short |-> FALSE, second |-> FALSE]
Events   == {"none", "complete", "failure"}
Idle     == [st |-> Off, boot |-> FALSE, tls |-> FALSE]
NoCell   == [type |-> "none"]
NoAnswer == [typed |-> NotFound, entry |-> NotFound, verdict |-> "none"]
NoCommand == [set |-> NoServer, saved |-> FALSE]
Between  == pending = NoCommand     \* no AT+LWSER= is in progress

TypeOK ==
  /\ flash \in Settings \cup {NoServer} /\ told \in Settings \cup {NoServer}
  /\ pending \in [set : Settings, saved : BOOLEAN] \cup {NoCommand}
  /\ res \in Resources /\ event \in Events
  /\ client \in [st : {Off, "on", "wiped"}, boot : BOOLEAN, tls : BOOLEAN]
  /\ cell = NoCell \/ cell.type \in Types
  /\ answer.verdict \in {"none", "OK", "ERROR"}
  /\ answer.entry \in Names \cup {NotFound}
  /\ strayed \in BOOLEAN /\ restarted \in BOOLEAN /\ wasBoot \in BOOLEAN

-----------------------------------------------------------------------------
(* The client *)

(* app_lwm2m_client_start, which may not find the resource of the URL.  It *)
(* clears the client first, also one that is in use, and never withdraws   *)
(* what an earlier server had set.                                         *)
Startable(s, urlFound) == s.addr # Empty /\ s.psk # "unnamed" /\ urlFound

(* Mutant: the security mode is only written when there is a key. *)
ConfiguredKeepsMode(s, was) ==
  [was EXCEPT !.url = s.addr,
              !.secure = @ \/ s.psk = "on",
              !.key = IF s.psk = "on" THEN s.key ELSE @,
              !.boot = @ \/ s.boot,
              !.second = @ \/ s.boot,
              !.short = @ \/ ~s.boot]

Configured(s, was) ==
  [was EXCEPT !.url = s.addr,
              !.secure = (s.psk = "on"),
              !.key = IF s.psk = "on" THEN s.key ELSE @,
              !.boot = @ \/ s.boot,
              !.second = @ \/ s.boot,
              !.short = @ \/ ~s.boot]

ClientStart(s, urlFound, was, st) ==
  IF Startable(s, urlFound)
  THEN /\ res' = Configured(s, was)
       /\ client' = [st |-> "on", boot |-> s.boot, tls |-> (s.psk = "on")]
  ELSE /\ res' = was
       /\ client' = [Idle EXCEPT !.st = IF st = Off THEN Off ELSE "wiped"]

(* rd_client_event of the client the engine runs. *)
Report(e) ==
  /\ client.st = "on"
  /\ event' = e
  /\ UNCHANGED <<flash, pending, res, client, cell, answer, told, strayed, restarted,
                 wasBoot>>

Init ==
  /\ flash = NoServer /\ pending = NoCommand
  /\ res = Fresh /\ client = Idle /\ event = "none"
  /\ cell = NoCell /\ answer = NoAnswer
  /\ told = NoServer /\ strayed = FALSE /\ restarted = FALSE /\ wasBoot = FALSE

(* A restart, with app_lwm2m_init_client at its end.  It may cut an        *)
(* AT+LWSER= between its save and its answer.                              *)
Reset(urlFound) ==
  /\ event' = "none" /\ cell' = NoCell /\ answer' = NoAnswer /\ pending' = NoCommand
  /\ flash' = flash /\ told' = told
  /\ strayed' = (strayed \/ pending.saved) /\ restarted' = TRUE
  /\ wasBoot' = (flash # NoServer /\ Startable(flash, urlFound) /\ flash.boot)
  /\ IF flash # NoServer
     THEN ClientStart(flash, urlFound, Fresh, Off)
     ELSE res' = Fresh /\ client' = Idle

-----------------------------------------------------------------------------
(* The commands.  Each is reached by a line that dispatches to it. *)

Answer(typed, tail, entry, v) ==
  /\ Dispatch(Line(typed, tail)) = entry
  /\ answer' = [typed |-> Meant(typed, tail), entry |-> entry, verdict |-> v]

(* Mutant: without a key the field is cleared. *)
KeyOfCleared(psk, key) == IF psk # Off THEN key ELSE Off

(* Without a key the old one, or what the stack held, stays in the record. *)
KeyOf(psk, key) ==
  IF psk # Off THEN key ELSE IF flash = NoServer THEN Junk ELSE flash.key

(* AT+LWSER= with settings that can be parsed: they are saved first, and a *)
(* failure to save is ignored.                                             *)
SaveServer(boot, addr, psk, key, saved) ==
  LET s == [boot |-> boot, addr |-> addr, psk |-> psk, key |-> KeyOf(psk, key)]
  IN /\ Between
     /\ pending' = [set |-> s, saved |-> saved]
     /\ flash' = IF saved THEN s ELSE flash
     /\ UNCHANGED <<res, client, event, cell, answer, told, strayed, restarted, wasBoot>>

(* Then the client is started; whether it could be is the answer. *)
StartServer(urlFound) ==
  LET s  == pending.set
      ok == Startable(s, urlFound)
  IN /\ ~Between
     /\ pending' = NoCommand
     /\ Answer("AT+LWSER", Set, "AT+LWSER", IF ok THEN "OK" ELSE "ERROR")
     /\ ClientStart(s, urlFound, res, client.st)
     /\ told' = IF ok THEN s ELSE told
     /\ strayed' = IF ok THEN ~pending.saved ELSE strayed \/ pending.saved
     /\ restarted' = (restarted /\ ~ok)
     /\ wasBoot' = (wasBoot \/ (ok /\ s.boot))
     /\ UNCHANGED <<flash, event, cell>>

(* AT+LWSER= with too few parameters or a key that is not hexadecimal. *)
SetServerRefused ==
  /\ Between
  /\ Answer("AT+LWSER", Set, "AT+LWSER", "ERROR")
  /\ UNCHANGED <<server, cell>>

(* AT+LWSER?  Nothing stored is reported, and ends in ERROR nevertheless;  *)
(* a record without a key may hold a length bin2hex refuses.               *)
ReadServer ==
  /\ Between
  /\ \E v \in {"OK", "ERROR"} :
       /\ flash = NoServer => v = "ERROR"
       /\ flash # NoServer /\ flash.key # Junk => v = "OK"
       /\ Answer("AT+LWSER", Read, "AT+LWSER", v)
  /\ UNCHANGED <<server, cell>>

CommandOf == [bool |-> "AT+LWVBOOL", s8 |-> "AT+LWVS", s16 |-> "AT+LWVSS",
  s32 |-> "AT+LWVSSS", s64 |-> "AT+LWVSSSS", u8 |-> "AT+LWVU", u16 |-> "AT+LWVUU",
  u32 |-> "AT+LWVUUU", u64 |-> "AT+LWVUUUU", f32 |-> "AT+LWVF", f64 |-> "AT+LWVFF"]

(* AT+LWV... with a path and one to five numbers: the write. *)
WriteValue(type, u) ==
  /\ Between
  /\ Answer(CommandOf[type], Set, CommandOf[type], "OK")
  /\ cell' = [type |-> type, given |-> u, holds |-> Stored(type, u)]
  /\ UNCHANGED server

(* Every other line, and values the parser or the engine refuses.  The     *)
(* commands of the other tables are in AtThread; AT+LWSTATE, AT+LWEVENT    *)
(* and AT+LWOBJ change nothing that is kept here.                          *)
Other(typed, tail, entry, v) ==
  /\ Between
  /\ entry = "AT+LWSER" => tail \notin {Set, Read}
  /\ entry \notin {"AT+RST", "AT+FRST"}
  /\ entry = NotFound => v = "ERROR"
  /\ entry \in {CommandOf[t] : t \in Types} /\ tail # Set => v = "OK"
  /\ Answer(typed, tail, entry, v)
  /\ UNCHANGED <<server, cell>>

Params(type) ==
  LET used == CASE type \in Plain \cup {"bool"} -> {0}
                [] type \in Narrow \cup {"u64"} -> {0, 1}
                [] type \in {"s64", "f32"} -> {0, 1, 2}
                [] type = "f64" -> 0 .. 4
  IN {[i \in 0 .. 4 |-> IF i \in used THEN u[i] ELSE 0] : u \in [used -> WordValues]}

SaveServerAny ==
  \E boot \in BOOLEAN, addr \in Addrs \cup {Empty}, psk \in {Off, "on", "unnamed"},
     key \in Keys, saved \in BOOLEAN :
    SaveServer(boot, addr, psk, key, saved)

WriteAny == \E type \in Types : \E u \in Params(type) : WriteValue(type, u)

OtherAny ==
  \E typed \in Names, tail \in Tails, v \in {"OK", "ERROR"} :
    Other(typed, tail, Dispatch(Line(typed, tail)), v)

Next ==
  \/ SaveServerAny \/ (\E urlFound \in BOOLEAN : StartServer(urlFound))
  \/ SetServerRefused \/ ReadServer
  \/ WriteAny \/ OtherAny
  \/ \E e \in Events \ {"none"} : Report(e)
  \/ \E urlFound \in BOOLEAN : Reset(urlFound)

Spec == Init /\ [][Next]_vars

-----------------------------------------------------------------------------
(* Properties *)

(* The client runs for settings: it registers where they say and is        *)
(* protected as they say.  A bootstrap server leaves its mark on object 0  *)
(* until the restart: app_lwm2m_client_start never takes it back.          *)
RunsFor(s) ==
  /\ res.url = s.addr /\ client.boot = s.boot
  /\ res.secure = (s.psk = "on") /\ client.tls = res.secure
  /\ res.secure => res.key = s.key
  /\ IF s.boot THEN res.boot /\ res.second
     ELSE res.short /\ (res.boot => wasBoot)

(* A client that runs does so for the settings last answered OK.  After a  *)
(* restart it still does, unless the save of those failed or later ones    *)
(* were saved without an OK, refused or cut off by the restart: it then    *)
(* runs for what flash holds, were it settings the host was refused.       *)
ServerAsTold ==
  /\ client.st = "on" /\ (restarted => ~strayed) => RunsFor(told)
  /\ client.st = "on" /\ restarted /\ Between => RunsFor(flash)
  /\ ~strayed /\ Between => flash = told

(* A line reaches the command that was typed, bare, with parameters or     *)
(* with a question mark, and one with a slip of the key reaches none:      *)
(* although names are prefixes of names, the first match wins, and one     *)
(* character after a name is not looked at.                                *)
RightCommand == answer.typed = answer.entry

(* A number written and read back is the number given, sign and all,       *)
(* through the conversions of every width; for the floats under the        *)
(* conditions in Holds.                                                    *)
ValuesReadBack ==
  cell # NoCell /\ Holds(cell.type, cell.given) =>
    Printed(cell.type, cell.holds) = Asked(cell.type, cell.given)
=============================================================================
