--------------------------- MODULE AtLwm2mProofs ---------------------------
(***************************************************************************)
(* What TLAPS proves about the LwM2M commands: for any addresses and keys, *)
(* the client registers where it was told to; and for words of any width   *)
(* a value written and read back is the value given.                       *)
(***************************************************************************)
EXTENDS AtLwm2m, SequenceTheorems, WellFoundedInduction, TLAPS

(* Settings that are protected have a key; the marks a bootstrap server    *)
(* leaves are remembered.                                                  *)
KeyKnown(s) == s # NoServer /\ s.psk # Off => s.key \in Keys

StoreInv ==
  /\ flash \in Settings \cup {NoServer} /\ KeyKnown(flash)
  /\ told \in Settings \cup {NoServer}
  /\ pending \in [set : Settings, saved : BOOLEAN] \cup {NoCommand}
  /\ KeyKnown(pending.set)
  /\ strayed \in BOOLEAN /\ restarted \in BOOLEAN /\ wasBoot \in BOOLEAN

(* Flash holds what was acknowledged, unless a save had no OK or an OK no  *)
(* save.                                                                   *)
FlashInv ==
  /\ pending.saved => flash = pending.set
  /\ ~strayed /\ ~pending.saved => flash = told

ClientInv ==
  /\ res \in Resources /\ event \in Events
  /\ client \in [st : {Off, "on", "wiped"}, boot : BOOLEAN, tls : BOOLEAN]
  /\ res.boot => wasBoot

RunsInv ==
  /\ client.st = "on" /\ (restarted => ~strayed) => RunsFor(told)
  /\ client.st = "on" /\ restarted /\ Between => RunsFor(flash)

AnswerInv ==
  /\ answer.verdict \in {"none", "OK", "ERROR"}
  /\ answer.entry \in Names \cup {NotFound}

CellInv ==
  \/ cell = NoCell
  \/ \E type \in Types : \E u \in Params(type) :
       cell = [type |-> type, given |-> u, holds |-> Stored(type, u)]

LwInv == StoreInv /\ FlashInv /\ ClientInv /\ RunsInv /\ AnswerInv /\ CellInv

-----------------------------------------------------------------------------
(* The tables *)

Less == {p \in Nat \X Nat : p[1] < p[2]}

LEMMA LessIsWellFounded == IsWellFoundedOn(Less, Nat)
<1>1. OpToRel(<, Nat) = Less
  BY DEF OpToRel, Less
<1> QED
  BY <1>1, NatLessThanWellFounded

LEMMA Smallest ==
  ASSUME NEW T, T \subseteq Nat, T # {}
  PROVE  \E m \in T : \A n \in T : m <= n
<1>1. \A m, n \in Nat : <<n, m>> \in Less <=> n < m
  BY DEF Less
<1>2. \E m \in T : \A n \in T : ~(<<n, m>> \in Less)
  BY LessIsWellFounded, WFMin
<1>3. PICK m \in T : \A n \in T : ~(<<n, m>> \in Less)
  BY <1>2
<1>4. \A n \in T : ~(n < m)
  BY <1>1, <1>3
<1>5. \A n \in T : m <= n
  BY <1>4
<1> QED
  BY <1>5

(* What joining two sequences makes of them. *)
IsJoint(X, s, t, st) ==
  /\ st \in Seq(X) /\ Len(st) = Len(s) + Len(t)
  /\ \A k \in 1 .. Len(s) : st[k] = s[k]
  /\ \A k \in 1 .. Len(t) : st[Len(s) + k] = t[k]

LEMMA Joined ==
  ASSUME NEW X, NEW s \in Seq(X), NEW t \in Seq(X)
  PROVE  IsJoint(X, s, t, s \o t)
<1>1. Len(s) \in Nat /\ Len(t) \in Nat
  BY LenProperties
<1>2. /\ s \o t \in Seq(X) /\ Len(s \o t) = Len(s) + Len(t)
      /\ \A k \in 1 .. Len(s) + Len(t) :
           (s \o t)[k] = IF k <= Len(s) THEN s[k] ELSE t[k - Len(s)]
  BY ConcatProperties, Zenon
<1> QED
  BY <1>1, <1>2 DEF IsJoint

(* The four tables are one sequence of names; those of the third are what  *)
(* the commands of this module are called.                                 *)
LEMMA CommandsAreSequence ==
  /\ \E X : Commands \in Seq(X) /\ NotFound \notin X
  /\ \A i \in 1 .. 16 : 12 + i \in DOMAIN Commands /\ Commands[12 + i] = Lwm2mTable[i]
<1> DEFINE X == {OpenThreadTable[i] : i \in 1 .. 9} \cup {CoapTable[i] : i \in 1 .. 3}
                  \cup {Lwm2mTable[i] : i \in 1 .. 16} \cup {SystemTable[i] : i \in 1 .. 5}
<1>1. /\ \A i \in 1 .. 9 : OpenThreadTable[i] \in X
      /\ \A i \in 1 .. 3 : CoapTable[i] \in X
      /\ \A i \in 1 .. 16 : Lwm2mTable[i] \in X
      /\ \A i \in 1 .. 5 : SystemTable[i] \in X
  OBVIOUS
<1>2. NotFound \notin X
  <2>1. \A i \in 1 .. 9 : OpenThreadTable[i] # NotFound
    BY DEF OpenThreadTable, NotFound
  <2>2. \A i \in 1 .. 3 : CoapTable[i] # NotFound
    BY DEF CoapTable, NotFound
  <2>3. \A i \in 1 .. 16 : Lwm2mTable[i] # NotFound
    BY DEF Lwm2mTable, NotFound
  <2>4. \A i \in 1 .. 5 : SystemTable[i] # NotFound
    BY DEF SystemTable, NotFound
  <2> QED
    BY <2>1, <2>2, <2>3, <2>4
<1> HIDE DEF X
<1>3. OpenThreadTable \in Seq(X) /\ Len(OpenThreadTable) = 9
  BY <1>1 DEF OpenThreadTable
<1>4. CoapTable \in Seq(X) /\ Len(CoapTable) = 3
  BY <1>1 DEF CoapTable
<1>5. Lwm2mTable \in Seq(X) /\ Len(Lwm2mTable) = 16
  BY <1>1 DEF Lwm2mTable
<1>6. SystemTable \in Seq(X) /\ Len(SystemTable) = 5
  BY <1>1 DEF SystemTable
<1> DEFINE front == OpenThreadTable \o CoapTable
           most  == front \o Lwm2mTable
<1>7. IsJoint(X, OpenThreadTable, CoapTable, front)
  BY <1>3, <1>4, Joined, Zenon
<1> HIDE DEF front
<1>8. IsJoint(X, front, Lwm2mTable, most)
  <2>1. front \in Seq(X) /\ Lwm2mTable \in Seq(X)
    BY <1>5, <1>7 DEF IsJoint
  <2> QED
    BY <2>1, Joined, Zenon
<1> HIDE DEF most
<1>9. IsJoint(X, most, SystemTable, Commands)
  <2>1. Commands = most \o SystemTable
    BY DEF Commands, most, front
  <2>2. most \in Seq(X) /\ SystemTable \in Seq(X)
    BY <1>6, <1>8 DEF IsJoint
  <2>3. IsJoint(X, most, SystemTable, most \o SystemTable)
    BY <2>2, Joined, Zenon
  <2> QED
    BY <2>1, <2>3
<1>10. /\ Len(front) = 12 /\ Len(most) = 28 /\ Len(Commands) = 33
       /\ \A i \in 1 .. 16 : Commands[12 + i] = Lwm2mTable[i]
  BY <1>3, <1>4, <1>5, <1>6, <1>7, <1>8, <1>9 DEF IsJoint
<1>11. Commands \in Seq(X) /\ DOMAIN Commands = 1 .. 33
  <2>1. Commands \in Seq(X)
    BY <1>9 DEF IsJoint
  <2>2. DOMAIN Commands = 1 .. Len(Commands)
    BY <2>1, LenProperties, Zenon
  <2> QED
    BY <1>10, <2>1, <2>2
<1>12. \A i \in 1 .. 16 : 12 + i \in 1 .. 33
  OBVIOUS
<1> QED
  BY <1>2, <1>10, <1>11, <1>12, Zenon

LEMMA EntryFacts ==
  /\ DOMAIN Commands \subseteq Nat
  /\ \A i \in DOMAIN Commands : Commands[i] # NotFound
  /\ \A i \in 1 .. 16 : Lwm2mTable[i] \in Names
<1>1. PICK X : Commands \in Seq(X) /\ NotFound \notin X
  BY CommandsAreSequence
<1>2. DOMAIN Commands = 1 .. Len(Commands) /\ Len(Commands) \in Nat
  BY <1>1, LenProperties
<1>3. \A i \in DOMAIN Commands : Commands[i] \in X
  BY <1>1, <1>2, ElementOfSeq
<1>4. \A i \in DOMAIN Commands : Commands[i] \in Names
  BY DEF Names
<1>5. DOMAIN Commands \subseteq Nat
  BY <1>2
<1> QED
  BY <1>1, <1>3, <1>4, <1>5, CommandsAreSequence, Zenon

LEMMA TypedNames ==
  /\ "AT+LWSER" \in Names
  /\ \A type \in Types : CommandOf[type] \in Names
<1>1. \A i \in 1 .. 16 : Lwm2mTable[i] \in Names
  BY EntryFacts
<1>2. Lwm2mTable[3] = "AT+LWSER" /\ Lwm2mTable[6] = "AT+LWVBOOL"
  BY DEF Lwm2mTable
<1>3. /\ Lwm2mTable[7] = "AT+LWVS" /\ Lwm2mTable[8] = "AT+LWVSS"
      /\ Lwm2mTable[9] = "AT+LWVSSS" /\ Lwm2mTable[10] = "AT+LWVSSSS"
  BY DEF Lwm2mTable
<1>4. /\ Lwm2mTable[11] = "AT+LWVU" /\ Lwm2mTable[12] = "AT+LWVUU"
      /\ Lwm2mTable[13] = "AT+LWVUUU" /\ Lwm2mTable[14] = "AT+LWVUUUU"
      /\ Lwm2mTable[15] = "AT+LWVF" /\ Lwm2mTable[16] = "AT+LWVFF"
  BY DEF Lwm2mTable
<1>5. /\ "AT+LWVBOOL" \in Names /\ "AT+LWVS" \in Names /\ "AT+LWVSS" \in Names
      /\ "AT+LWVSSS" \in Names /\ "AT+LWVSSSS" \in Names
  BY <1>1, <1>2, <1>3
<1>6. /\ "AT+LWVU" \in Names /\ "AT+LWVUU" \in Names /\ "AT+LWVUUU" \in Names
      /\ "AT+LWVUUUU" \in Names /\ "AT+LWVF" \in Names /\ "AT+LWVFF" \in Names
  BY <1>1, <1>4
<1>7. "AT+LWSER" \in Names
  BY <1>1, <1>2
<1> HIDE DEF Names
<1>8. \A type \in Types : CommandOf[type] \in Names
  BY <1>5, <1>6 DEF CommandOf, Types, Width
<1> QED
  BY <1>7, <1>8

(* What a line finds is the first of the entries that match. *)
LEMMA DispatchFinds ==
  ASSUME NEW line
  PROVE  \/ /\ Dispatch(line) = NotFound
            /\ \A i \in DOMAIN Commands : ~Matches(line, Spelled[i])
         \/ \E i \in DOMAIN Commands :
              Dispatch(line) = Commands[i] /\ Matches(line, Spelled[i])
<1> DEFINE hits == {i \in DOMAIN Commands : Matches(line, Spelled[i])}
<1>2. CASE hits = {}
  BY <1>2 DEF Dispatch
<1>3. CASE hits # {}
  <2>1. hits \subseteq Nat
    BY EntryFacts
  <2> DEFINE first == CHOOSE i \in hits : \A j \in hits : i <= j
  <2>2. Dispatch(line) = Commands[first]
    BY <1>3 DEF Dispatch
  <2> HIDE DEF hits
  <2>3. \E i \in hits : \A j \in hits : i <= j
    BY <1>3, <2>1, Smallest
  <2>4. first \in hits
    BY <2>3
  <2>5. first \in DOMAIN Commands /\ Matches(line, Spelled[first])
    BY <2>4 DEF hits
  <2> HIDE DEF first
  <2> QED
    BY <2>2, <2>5
<1> QED
  BY <1>2, <1>3

(* Every line has one entry, or none. *)
LEMMA DispatchIsName == ASSUME NEW line PROVE Dispatch(line) \in Names \cup {NotFound}
BY DispatchFinds DEF Names

Char    == STRING \cup {"=", "1", "?", "X", CR}
Foreign == {"=", "?", "X", CR}

LEMMA SpelledLetters ==
  ASSUME NEW i \in DOMAIN Commands
  PROVE  /\ Spelled[i] \in Seq(Char) /\ Spelled[i] = Letters(Commands[i])
         /\ Len(Spelled[i]) = Len(Commands[i]) /\ Len(Spelled[i]) \in Nat
         /\ \A k \in 1 .. Len(Spelled[i]) : Spelled[i][k] \notin Foreign
<1> DEFINE name == Commands[i]
<1>1. /\ Len(name) \in Nat
      /\ \A k \in 1 .. Len(name) : SubSeq(name, k, k) \in Char \ Foreign
  BY Spelling DEF Foreign, Char
<1>2. Spelled[i] = Letters(name)
  BY DEF Spelled
<1> HIDE DEF name
<1>3. /\ Letters(name) \in Seq(Char) /\ Len(Letters(name)) = Len(name)
      /\ \A k \in 1 .. Len(name) : Letters(name)[k] \notin Foreign
  BY <1>1 DEF Letters
<1> QED
  BY <1>1, <1>2, <1>3 DEF name

(* What follows a name ends with the carriage return and begins with a     *)
(* character no name has.                                                  *)
Ending(tail) == tail \o <<CR>>

LEMMA EndingFacts ==
  ASSUME NEW tail \in Tails, NEW e, e = Ending(tail)
  PROVE  /\ e \in Seq(Char) /\ Len(e) \in Nat \ {0} /\ e[1] \in Foreign
         /\ tail # Slip /\ Len(e) > 1 => e[1] \in {"=", "?"}
         /\ tail = Slip => Len(e) = 2 /\ e[1] = "X"
<1>1. "=" \in Char /\ "1" \in Char /\ "?" \in Char /\ "X" \in Char /\ CR \in Char
  BY DEF Char
<1>2. <<CR>> \in Seq(Char) /\ Len(<<CR>>) = 1 /\ <<CR>>[1] = CR
  BY <1>1
<1>3. /\ Bare \in Seq(Char) /\ Len(Bare) = 0
      /\ Set \in Seq(Char) /\ Len(Set) = 2 /\ Set[1] = "="
      /\ Read \in Seq(Char) /\ Len(Read) = 1 /\ Read[1] = "?"
      /\ Slip \in Seq(Char) /\ Len(Slip) = 1 /\ Slip[1] = "X"
  BY <1>1 DEF Bare, Set, Read, Slip
<1>4. tail \in Seq(Char)
  BY <1>3 DEF Tails
<1>5. IsJoint(Char, tail, <<CR>>, e)
  <2>1. IsJoint(Char, tail, <<CR>>, tail \o <<CR>>)
    BY <1>2, <1>4, Joined, Zenon
  <2> QED
    BY <2>1, Zenon DEF Ending
<1>6. /\ e \in Seq(Char) /\ Len(e) = Len(tail) + 1
      /\ Len(tail) > 0 => e[1] = tail[1]
      /\ e[Len(tail) + 1] = CR
  <2>1. 1 \in 1 .. Len(<<CR>>) /\ Len(tail) \in Nat
    BY <1>2, <1>4
  <2>2. Len(tail) > 0 => 1 \in 1 .. Len(tail)
    BY <2>1
  <2> QED
    BY <1>2, <1>5, <2>1, <2>2 DEF IsJoint
<1>a. Bare # Slip /\ Set # Slip /\ Read # Slip
  BY DEF Bare, Set, Read, Slip
<1>7. CASE tail = Bare
  <2>0. Len(tail) = 0 /\ tail # Slip
    BY <1>3, <1>a, <1>7
  <2>1. Len(e) = 1 /\ e[1] = CR /\ tail # Slip
    BY <1>6, <2>0
  <2> QED
    BY <1>6, <2>1 DEF Foreign
<1>8. CASE tail = Set
  <2>0. Len(tail) = 2 /\ tail[1] = "=" /\ tail # Slip
    BY <1>3, <1>a, <1>8
  <2>1. Len(e) = 3 /\ e[1] = "=" /\ tail # Slip
    BY <1>6, <2>0
  <2> QED
    BY <1>6, <2>1 DEF Foreign
<1>9. CASE tail = Read
  <2>0. Len(tail) = 1 /\ tail[1] = "?" /\ tail # Slip
    BY <1>3, <1>a, <1>9
  <2>1. Len(e) = 2 /\ e[1] = "?" /\ tail # Slip
    BY <1>6, <2>0
  <2> QED
    BY <1>6, <2>1 DEF Foreign
<1>10. CASE tail = Slip
  <2>0. Len(tail) = 1 /\ tail[1] = "X"
    BY <1>3, <1>10
  <2>1. Len(e) = 2 /\ e[1] = "X"
    BY <1>6, <2>0
  <2>2. e[1] \in Foreign
    BY <2>1 DEF Foreign
  <2>3. Len(e) \in Nat \ {0}
    BY <2>1
  <2> QED
    BY <1>6, <1>10, <2>1, <2>2, <2>3, Zenon
<1> QED
  BY <1>7, <1>8, <1>9, <1>10 DEF Tails

LEMMA BeginsWith ==
  ASSUME NEW s \in Seq(Char), NEW m \in Seq(Char), Len(m) <= Len(s)
  PROVE  SubSeq(s, 1, Len(m)) = m <=> \A k \in 1 .. Len(m) : m[k] = s[k]
<1> DEFINE front == SubSeq(s, 1, Len(m))
<1>1. Len(m) \in Nat /\ Len(s) \in Nat
  BY LenProperties
<1>2. /\ front \in Seq(Char) /\ Len(front) = Len(m)
      /\ \A k \in 1 .. Len(m) : front[k] = s[k]
  BY <1>1
<1> HIDE DEF front
<1>3. (\A k \in 1 .. Len(m) : m[k] = s[k]) => front = m
  BY <1>1, <1>2, SeqEqual, Zenon
<1> QED
  BY <1>2, <1>3 DEF front

(* For any name and any entry: a line is taken for no entry but its own    *)
(* name, and for that only when the name is followed as it should be.      *)
LEMMA OnlyItself ==
  ASSUME NEW n \in Seq(Char), NEW m \in Seq(Char), NEW tail \in Tails,
         \A k \in 1 .. Len(n) : n[k] \notin Foreign,
         \A k \in 1 .. Len(m) : m[k] \notin Foreign,
         Matches(n \o Ending(tail), m)
  PROVE  m = n /\ tail # Slip
<1> DEFINE line == n \o Ending(tail)
           e    == Ending(tail)
<1>1. /\ e \in Seq(Char) /\ Len(e) \in Nat \ {0} /\ e[1] \in Foreign
      /\ tail = Slip => Len(e) = 2 /\ e[1] = "X"
  BY EndingFacts
<1> HIDE DEF e
<1>2. Len(m) \in Nat /\ Len(n) \in Nat
  BY LenProperties
<1>3. IsJoint(Char, n, e, line)
  BY <1>1, Joined, Zenon DEF e
<1>4. /\ Len(m) <= Len(line) /\ SubSeq(line, 1, Len(m)) = m
      /\ Len(line) > Len(m) + 1 => line[Len(m) + 1] \in {"=", "?"}
  BY DEF Matches, IsPrefixOf
<1> HIDE DEF line
<1>j. /\ line \in Seq(Char) /\ Len(line) = Len(n) + Len(e)
      /\ \A k \in 1 .. Len(n) : line[k] = n[k]
      /\ \A k \in 1 .. Len(e) : line[Len(n) + k] = e[k]
  BY <1>3, Zenon DEF IsJoint
<1>5. line[Len(n) + 1] = e[1]
  BY <1>1, <1>j
<1>6. \A k \in 1 .. Len(m) : m[k] = line[k]
  BY <1>1, <1>2, <1>j, <1>4, BeginsWith
<1>7. ASSUME Len(m) > Len(n) PROVE FALSE
  <2>1. Len(n) + 1 \in 1 .. Len(m)
    BY <1>2, <1>7
  <2>2. m[Len(n) + 1] = e[1]
    BY <1>5, <1>6, <2>1
  <2> QED
    BY <1>1, <2>1, <2>2
<1>8. ASSUME Len(m) < Len(n) PROVE FALSE
  <2>1. Len(line) > Len(m) + 1 /\ Len(m) + 1 \in 1 .. Len(n)
    BY <1>1, <1>2, <1>j, <1>8
  <2>2. line[Len(m) + 1] \in Foreign /\ line[Len(m) + 1] = n[Len(m) + 1]
    BY <1>j, <1>4, <2>1 DEF Foreign
  <2> QED
    BY <2>1, <2>2
<1>9. Len(m) = Len(n)
  BY <1>2, <1>7, <1>8
<1>10. m = n
  <2>1. \A k \in 1 .. Len(m) : m[k] = n[k]
    BY <1>j, <1>6, <1>9
  <2> QED
    BY <1>9, <2>1, SeqEqual, Zenon
<1>11. tail # Slip
  <2> SUFFICES ASSUME tail = Slip PROVE FALSE
    OBVIOUS
  <2>1. Len(e) = 2 /\ e[1] = "X"
    BY <1>1
  <2>2. Len(line) > Len(m) + 1 /\ line[Len(m) + 1] = "X"
    BY <1>2, <1>5, <1>9, <1>j, <2>1
  <2> QED
    BY <1>4, <2>2
<1> QED
  BY <1>10, <1>11

LEMMA FindsItself ==
  ASSUME NEW n \in Seq(Char), NEW tail \in Tails, tail # Slip
  PROVE  Matches(n \o Ending(tail), n)
<1> DEFINE line == n \o Ending(tail)
           e    == Ending(tail)
<1>1. /\ e \in Seq(Char) /\ Len(e) \in Nat \ {0} /\ Len(n) \in Nat
      /\ Len(e) > 1 => e[1] \in {"=", "?"}
  BY EndingFacts, LenProperties
<1> HIDE DEF e
<1>2. IsJoint(Char, n, e, line)
  BY <1>1, Joined, Zenon DEF e
<1> HIDE DEF line
<1>j. /\ line \in Seq(Char) /\ Len(line) = Len(n) + Len(e)
      /\ \A k \in 1 .. Len(n) : line[k] = n[k]
      /\ line[Len(n) + 1] = e[1]
  <2>1. 1 \in 1 .. Len(e)
    BY <1>1
  <2> QED
    BY <1>2, <2>1, Zenon DEF IsJoint
<1>3. SubSeq(line, 1, Len(n)) = n
  BY <1>1, <1>j, BeginsWith
<1>4. Len(line) > Len(n) + 1 => line[Len(n) + 1] \in {"=", "?"}
  BY <1>1, <1>j
<1> QED
  BY <1>1, <1>j, <1>3, <1>4 DEF Matches, IsPrefixOf, line

(* The tables answer each line by the command that was typed.              *)
LEMMA LineFinds ==
  ASSUME NEW typed \in Names, NEW tail \in Tails
  PROVE  Dispatch(Line(typed, tail)) = Meant(typed, tail)
<1> DEFINE line == Line(typed, tail)
<1>1. PICK a \in DOMAIN Commands : typed = Commands[a]
  BY DEF Names
<1>2. line = Spelled[a] \o Ending(tail)
  BY <1>1, SpelledLetters DEF Line, Ending
<1>3. ASSUME NEW b \in DOMAIN Commands, Matches(line, Spelled[b])
      PROVE  b = a /\ tail # Slip
  <2>a. Spelled[a] \in Seq(Char) /\ \A k \in 1 .. Len(Spelled[a]) : Spelled[a][k] \notin Foreign
    BY SpelledLetters
  <2>b. Spelled[b] \in Seq(Char) /\ \A k \in 1 .. Len(Spelled[b]) : Spelled[b][k] \notin Foreign
    BY SpelledLetters
  <2>c. Matches(Spelled[a] \o Ending(tail), Spelled[b])
    BY <1>2, <1>3
  <2>1. Spelled[b] = Spelled[a] /\ tail # Slip
    BY <2>a, <2>b, <2>c, OnlyItself, Zenon
  <2> QED
    BY <2>1, Spelling
<1>4. CASE tail = Slip
  BY <1>3, <1>4, DispatchFinds DEF Meant
<1>5. CASE tail # Slip
  <2>1. Matches(line, Spelled[a])
    BY <1>2, <1>5, SpelledLetters, FindsItself
  <2>2. PICK b \in DOMAIN Commands : Dispatch(line) = Commands[b] /\ Matches(line, Spelled[b])
    BY <2>1, DispatchFinds
  <2> QED
    BY <1>1, <1>3, <1>5, <2>2 DEF Meant
<1> QED
  BY <1>4, <1>5

LEMMA Answered ==
  ASSUME NEW typed, NEW tail, NEW entry, NEW v \in {"OK", "ERROR"},
         Answer(typed, tail, entry, v)
  PROVE  AnswerInv'
BY DispatchIsName DEF Answer, AnswerInv

-----------------------------------------------------------------------------
(* The client *)

LEMMA SettingsFacts ==
  ASSUME NEW s \in Settings
  PROVE  /\ s # NoServer /\ s.boot \in BOOLEAN /\ s.addr \in Addrs \cup {Empty}
         /\ s.psk \in {Off, "on", "unnamed"} /\ s.key \in Keys \cup {Junk}
BY AtLwm2mAssumption DEF Settings

(* A start that succeeds leaves the resources as the settings say.         *)
LEMMA ConfiguredIs ==
  ASSUME NEW s \in Settings, s.psk # Off => s.key \in Keys, s.addr # Empty,
         NEW was \in Resources, NEW r, r = Configured(s, was)
  PROVE  /\ r \in Resources
         /\ r.url = s.addr /\ r.secure = (s.psk = "on")
         /\ r.secure => r.key = s.key
         /\ r.boot <=> was.boot \/ s.boot
         /\ s.boot => r.boot /\ r.second
         /\ ~s.boot => r.short
<1>1. /\ s.boot \in BOOLEAN /\ s.addr \in Addrs /\ s.psk \in {Off, "on", "unnamed"}
      /\ "on" # Off
  BY SettingsFacts DEF Off
<1>2. /\ was = [url |-> was.url, secure |-> was.secure, key |-> was.key, boot |-> was.boot,
                short |-> was.short, second |-> was.second]
      /\ was.key \in Keys \cup {Off} /\ was.boot \in BOOLEAN /\ was.short \in BOOLEAN
      /\ was.second \in BOOLEAN
  BY DEF Resources
<1>3. r = [url |-> s.addr, secure |-> (s.psk = "on"),
           key |-> IF s.psk = "on" THEN s.key ELSE was.key,
           boot |-> was.boot \/ s.boot, short |-> was.short \/ ~s.boot,
           second |-> was.second \/ s.boot]
  BY <1>2 DEF Configured
<1>4. r \in Resources
  BY <1>1, <1>2, <1>3 DEF Resources
<1>a. r.secure = (s.psk = "on")
  BY <1>3, SMT
<1>b. r.boot = (was.boot \/ s.boot)
  BY <1>3, SMT
<1>c. r.second = (was.second \/ s.boot)
  BY <1>3, SMT
<1>d. r.short = (was.short \/ ~s.boot)
  BY <1>3, SMT
<1>5. r.secure <=> s.psk = "on"
  BY <1>a, Zenon
<1>6. r.boot <=> was.boot \/ s.boot
  BY <1>b, Zenon
<1>7. r.url = s.addr /\ (r.secure => r.key = s.key)
  BY <1>3, <1>5
<1>8. (s.boot => r.boot /\ r.second) /\ (~s.boot => r.short)
  BY <1>b, <1>c, <1>d, Zenon
<1> QED
  BY <1>4, <1>a, <1>6, <1>7, <1>8
(* RunsFor of the next state, for settings of this one. *)
WillRunFor(s) ==
  /\ res'.url = s.addr /\ client'.boot = s.boot
  /\ res'.secure = (s.psk = "on") /\ client'.tls = res'.secure
  /\ res'.secure => res'.key = s.key
  /\ IF s.boot THEN res'.boot /\ res'.second
     ELSE res'.short /\ (res'.boot => wasBoot')

(* app_lwm2m_client_start: when it succeeds the client is what it was told *)
(* to be; when it fails no client runs.                                    *)
LEMMA Started ==
  ASSUME NEW s \in Settings, KeyKnown(s), NEW urlFound, NEW was \in Resources,
         was.boot => wasBoot', Startable(s, urlFound) /\ s.boot => wasBoot',
         NEW st \in {Off, "on", "wiped"}, ClientStart(s, urlFound, was, st), event' \in Events
  PROVE  /\ ClientInv'
         /\ Startable(s, urlFound) => WillRunFor(s)
         /\ ~Startable(s, urlFound) => client'.st # "on"
<1> DEFINE ok == Startable(s, urlFound)
<1>1. CASE ok
  <2>1. /\ res' = Configured(s, was)
        /\ client' = [st |-> "on", boot |-> s.boot, tls |-> (s.psk = "on")]
    BY <1>1 DEF ClientStart
  <2>2. s.addr # Empty /\ (s.psk # Off => s.key \in Keys)
    BY <1>1, SettingsFacts DEF Startable, KeyKnown
  <2>3. /\ res' \in Resources
        /\ res'.url = s.addr /\ res'.secure = (s.psk = "on")
        /\ res'.secure => res'.key = s.key
        /\ res'.boot <=> was.boot \/ s.boot
        /\ s.boot => res'.boot /\ res'.second
        /\ ~s.boot => res'.short
    BY <2>1, <2>2, ConfiguredIs
  <2>4. client'.boot = s.boot
    BY <2>1
  <2>5. client'.tls = (s.psk = "on")
    BY <2>1, SMT
  <2>6. client' \in [st : {Off, "on", "wiped"}, boot : BOOLEAN, tls : BOOLEAN]
    BY <2>1, SettingsFacts
  <2>7. res'.boot => wasBoot'
    BY <1>1, <2>3
  <2>8. client'.tls = res'.secure
    BY <2>3, <2>5, Zenon
  <2>9. WillRunFor(s)
    BY <2>3, <2>4, <2>7, <2>8, Zenon DEF WillRunFor
  <2> QED
    BY <1>1, <2>3, <2>6, <2>7, <2>9 DEF ClientInv
<1>2. CASE ~ok
  <2>1. /\ res' = was
        /\ client' = [Idle EXCEPT !.st = IF st = Off THEN Off ELSE "wiped"]
    BY <1>2 DEF ClientStart
  <2>2. /\ client' \in [st : {Off, "on", "wiped"}, boot : BOOLEAN, tls : BOOLEAN]
        /\ client'.st # "on"
    BY <2>1 DEF Idle, Off
  <2> QED
    BY <1>2, <2>1, <2>2 DEF ClientInv
<1> QED
  BY <1>1, <1>2

LEMMA NoCommandFacts == NoCommand.set = NoServer /\ NoCommand.saved = FALSE
BY DEF NoCommand

LEMMA SaveServerStep ==
  ASSUME LwInv, NEW boot \in BOOLEAN, NEW addr \in Addrs \cup {Empty},
         NEW psk \in {Off, "on", "unnamed"}, NEW key \in Keys, NEW saved \in BOOLEAN,
         SaveServer(boot, addr, psk, key, saved)
  PROVE  LwInv'
<1> DEFINE s == [boot |-> boot, addr |-> addr, psk |-> psk, key |-> KeyOf(psk, key)]
<1>1. StoreInv /\ FlashInv /\ ClientInv /\ RunsInv /\ AnswerInv /\ CellInv
  BY DEF LwInv
<1>2. s \in Settings /\ KeyKnown(s)
  <2>1. KeyOf(psk, key) \in Keys \cup {Junk} /\ (psk # Off => KeyOf(psk, key) \in Keys)
    BY <1>1, SettingsFacts DEF KeyOf, StoreInv
  <2> QED
    BY <2>1 DEF Settings, KeyKnown
<1>3. /\ Between /\ pending' = [set |-> s, saved |-> saved]
      /\ flash' = IF saved THEN s ELSE flash
      /\ UNCHANGED <<res, client, event, cell, answer, told, strayed, restarted, wasBoot>>
  BY DEF SaveServer
<1> HIDE DEF s
<1>4. pending'.set = s /\ pending'.saved = saved
  BY <1>3
<1>5. StoreInv'
  <2>1. pending' \in [set : Settings, saved : BOOLEAN]
    BY <1>2, <1>3
  <2>2. flash' \in Settings \cup {NoServer} /\ KeyKnown(flash)' /\ KeyKnown(pending.set)'
    BY <1>1, <1>2, <1>3, <1>4 DEF StoreInv, KeyKnown
  <2> QED
    BY <1>1, <1>3, <2>1, <2>2 DEF StoreInv
<1>6. FlashInv'
  BY <1>1, <1>3, <1>4, NoCommandFacts DEF FlashInv, Between
<1>7. ClientInv'
  BY <1>1, <1>3 DEF ClientInv
<1>8. RunsInv'
  <2>1. ~Between'
    BY <1>2, <1>4, NoCommandFacts, SettingsFacts DEF Between
  <2>2. \A t : RunsFor(t)' <=> RunsFor(t)
    BY <1>3 DEF RunsFor
  <2> QED
    BY <1>1, <1>3, <2>1, <2>2 DEF RunsInv
<1>9. AnswerInv' /\ CellInv'
  BY <1>1, <1>3 DEF AnswerInv, CellInv
<1> QED
  BY <1>5, <1>6, <1>7, <1>8, <1>9 DEF LwInv

LEMMA StartServerStep ==
  ASSUME LwInv, NEW urlFound \in BOOLEAN, StartServer(urlFound)
  PROVE  LwInv'
<1> DEFINE s  == pending.set
           ok == Startable(s, urlFound)
<1>1. StoreInv /\ FlashInv /\ ClientInv /\ RunsInv /\ CellInv
  BY DEF LwInv
<1>2. s \in Settings /\ KeyKnown(s) /\ pending.saved \in BOOLEAN /\ s.boot \in BOOLEAN
  BY <1>1, SettingsFacts DEF StoreInv, StartServer, Between
<1>3. /\ pending' = NoCommand
      /\ Answer("AT+LWSER", Set, "AT+LWSER", IF ok THEN "OK" ELSE "ERROR")
      /\ ClientStart(s, urlFound, res, client.st)
      /\ told' = IF ok THEN s ELSE told
      /\ strayed' = IF ok THEN ~pending.saved ELSE strayed \/ pending.saved
      /\ restarted' = (restarted /\ ~ok)
      /\ wasBoot' = (wasBoot \/ (ok /\ s.boot))
      /\ flash' = flash /\ event' = event /\ cell' = cell
  BY DEF StartServer
<1>4. (pending.saved => flash = s) /\ (~strayed /\ ~pending.saved => flash = told)
  BY <1>1 DEF FlashInv
<1> HIDE DEF s
<1>5. StoreInv'
  <2>1. strayed' \in BOOLEAN /\ restarted' \in BOOLEAN /\ wasBoot' \in BOOLEAN
    BY <1>1, <1>2, <1>3 DEF StoreInv
  <2>2. told' \in Settings \cup {NoServer}
    BY <1>1, <1>2, <1>3 DEF StoreInv
  <2>3. pending' = NoCommand /\ KeyKnown(pending.set)'
    BY <1>3, NoCommandFacts DEF KeyKnown
  <2>4. flash' \in Settings \cup {NoServer} /\ KeyKnown(flash)'
    BY <1>1, <1>3 DEF StoreInv, KeyKnown
  <2> QED
    BY <2>1, <2>2, <2>3, <2>4 DEF StoreInv
<1>6. FlashInv'
  <2>1. ~pending'.saved
    BY <1>3, NoCommandFacts
  <2>2. CASE ok
    BY <1>3, <1>4, <2>1, <2>2 DEF FlashInv
  <2>3. CASE ~ok
    BY <1>3, <1>4, <2>1, <2>3 DEF FlashInv
  <2> QED
    BY <2>2, <2>3
<1>7. ClientInv' /\ (ok => WillRunFor(s)) /\ (~ok => client'.st # "on")
  <2>1. res \in Resources /\ client.st \in {Off, "on", "wiped"} /\ event' \in Events
    BY <1>1, <1>3 DEF ClientInv
  <2>2. (res.boot => wasBoot') /\ (ok /\ s.boot => wasBoot')
    BY <1>1, <1>3 DEF ClientInv
  <2> QED
    BY <1>2, <1>3, <2>1, <2>2, Started
<1>8. RunsInv'
  <2>1. CASE ok
    <3>1. ~restarted' /\ told' = s
      BY <1>3, <2>1
    <3>2. RunsFor(told)'
      BY <1>7, <2>1, <3>1 DEF RunsFor, WillRunFor
    <3> QED
      BY <3>1, <3>2 DEF RunsInv
  <2>2. CASE ~ok
    BY <1>7, <2>2 DEF RunsInv
  <2> QED
    BY <2>1, <2>2
<1>9. AnswerInv' /\ CellInv'
  BY <1>1, <1>3, Answered DEF CellInv
<1> QED
  BY <1>5, <1>6, <1>7, <1>8, <1>9 DEF LwInv

LEMMA ResetStep ==
  ASSUME LwInv, NEW urlFound \in BOOLEAN, Reset(urlFound)
  PROVE  LwInv'
<1>1. StoreInv /\ FlashInv
  BY DEF LwInv
<1>2. /\ event' = "none" /\ cell' = NoCell /\ answer' = NoAnswer /\ pending' = NoCommand
      /\ flash' = flash /\ told' = told
      /\ strayed' = (strayed \/ pending.saved) /\ restarted' = TRUE
      /\ wasBoot' = (flash # NoServer /\ Startable(flash, urlFound) /\ flash.boot)
  BY DEF Reset
<1>3. strayed' \in BOOLEAN /\ restarted' \in BOOLEAN /\ wasBoot' \in BOOLEAN
  <2>1. flash # NoServer => flash.boot \in BOOLEAN
    BY <1>1, SettingsFacts DEF StoreInv
  <2>2. strayed \in BOOLEAN /\ pending.saved \in BOOLEAN
    BY <1>1, NoCommandFacts DEF StoreInv
  <2> QED
    BY <1>2, <2>1, <2>2 DEF Startable
<1>4. StoreInv' /\ FlashInv'
  <2>1. ~pending'.saved /\ KeyKnown(pending.set)'
    BY <1>2, NoCommandFacts DEF KeyKnown
  <2>2. StoreInv'
    BY <1>1, <1>2, <1>3, <2>1 DEF StoreInv, KeyKnown
  <2> QED
    BY <1>1, <1>2, <2>1, <2>2 DEF FlashInv
<1>5. Fresh \in Resources /\ Fresh.boot = FALSE
  BY DEF Fresh, Resources, Off
<1>6. ClientInv' /\ (client'.st = "on" => RunsFor(flash)')
  <2>1. CASE flash = NoServer
    <3>1. res' = Fresh /\ client' = Idle
      BY <2>1 DEF Reset
    <3>2. /\ client' \in [st : {Off, "on", "wiped"}, boot : BOOLEAN, tls : BOOLEAN]
          /\ client'.st # "on"
      BY <3>1 DEF Idle, Off
    <3> QED
      BY <1>2, <1>5, <3>1, <3>2 DEF ClientInv, Events
  <2>2. CASE flash # NoServer
    <3>1. ClientStart(flash, urlFound, Fresh, Off)
      BY <2>2 DEF Reset
    <3>2. flash \in Settings /\ KeyKnown(flash) /\ event' \in Events
      BY <1>1, <1>2, <2>2 DEF StoreInv, Events
    <3>3. Startable(flash, urlFound) /\ flash.boot => wasBoot'
      BY <1>2, <2>2
    <3>4. /\ ClientInv' /\ (Startable(flash, urlFound) => WillRunFor(flash))
          /\ ~Startable(flash, urlFound) => client'.st # "on"
      BY <1>5, <3>1, <3>2, <3>3, Started
    <3>5. client'.st = "on" => WillRunFor(flash)
      BY <3>4
    <3> QED
      BY <1>2, <3>4, <3>5 DEF RunsFor, WillRunFor
  <2> QED
    BY <2>1, <2>2
<1>7. RunsInv'
  <2>1. ~strayed' => flash' = told'
    BY <1>1, <1>2 DEF FlashInv
  <2>2. ~strayed' /\ client'.st = "on" => RunsFor(told)'
    BY <1>6, <2>1 DEF RunsFor
  <2> QED
    BY <1>2, <1>6, <2>2 DEF RunsInv
<1>8. AnswerInv' /\ CellInv'
  BY <1>2 DEF AnswerInv, NoAnswer, CellInv
<1> QED
  BY <1>4, <1>6, <1>7, <1>8 DEF LwInv

LEMMA Next_Lw == LwInv /\ [Next]_vars => LwInv'
<1> SUFFICES ASSUME LwInv, [Next]_vars PROVE LwInv'
  OBVIOUS
<1>i. StoreInv /\ FlashInv /\ ClientInv /\ RunsInv /\ AnswerInv /\ CellInv
  BY DEF LwInv
<1>1. CASE SaveServerAny
  BY <1>1, SaveServerStep DEF SaveServerAny
<1>0. CASE \E urlFound \in BOOLEAN : StartServer(urlFound)
  BY <1>0, StartServerStep
<1>2. CASE \E urlFound \in BOOLEAN : Reset(urlFound)
  BY <1>2, ResetStep
<1>s. ASSUME UNCHANGED server PROVE StoreInv' /\ FlashInv' /\ ClientInv' /\ RunsInv'
  BY <1>s, <1>i DEF server, StoreInv, FlashInv, KeyKnown, ClientInv, RunsInv, RunsFor, Between
<1>3. CASE SetServerRefused \/ ReadServer \/ OtherAny
  <2>1. UNCHANGED <<server, cell>>
    BY <1>3 DEF SetServerRefused, ReadServer, OtherAny, Other
  <2>2. AnswerInv'
    BY <1>3, Answered DEF SetServerRefused, ReadServer, OtherAny, Other
  <2> QED
    BY <1>i, <1>s, <2>1, <2>2 DEF CellInv, LwInv
<1>4. CASE WriteAny
  <2>1. PICK type \in Types : \E u \in Params(type) : WriteValue(type, u)
    BY <1>4 DEF WriteAny
  <2>2. PICK u \in Params(type) : WriteValue(type, u)
    BY <2>1
  <2>3. AnswerInv'
    BY <2>2, Answered DEF WriteValue
  <2>4. UNCHANGED server /\ cell' = [type |-> type, given |-> u, holds |-> Stored(type, u)]
    BY <2>2 DEF WriteValue
  <2>5. CellInv'
    BY <2>4 DEF CellInv
  <2> QED
    BY <1>s, <2>3, <2>4, <2>5 DEF LwInv
<1>5. ASSUME NEW e \in Events, Report(e) PROVE LwInv'
  <2>1. /\ UNCHANGED <<flash, pending, res, client, cell, answer, told, strayed, restarted,
                       wasBoot>>
        /\ event' \in Events
    BY <1>5 DEF Report
  <2>2. StoreInv' /\ FlashInv' /\ ClientInv' /\ RunsInv'
    BY <1>i, <2>1 DEF StoreInv, FlashInv, KeyKnown, ClientInv, RunsInv, RunsFor, Between
  <2> QED
    BY <1>i, <2>1, <2>2 DEF LwInv, AnswerInv, CellInv
<1>6. CASE UNCHANGED vars
  <2>1. UNCHANGED <<server, cell, answer>>
    BY <1>6 DEF vars, server
  <2> QED
    BY <1>i, <1>s, <2>1 DEF CellInv, AnswerInv, LwInv
<1> QED
  BY <1>0, <1>1, <1>2, <1>3, <1>4, <1>5, <1>6 DEF Next

LEMMA Init_Lw == Init => LwInv
<1> SUFFICES ASSUME Init PROVE LwInv
  OBVIOUS
<1>1. /\ flash = NoServer /\ res = Fresh /\ client = Idle /\ event = "none"
      /\ cell = NoCell /\ answer = NoAnswer /\ pending = NoCommand
      /\ told = NoServer /\ strayed = FALSE /\ restarted = FALSE /\ wasBoot = FALSE
  BY Zenon DEF Init
<1>2. StoreInv /\ FlashInv
  BY <1>1, NoCommandFacts DEF StoreInv, FlashInv, KeyKnown
<1>3. ClientInv /\ RunsInv
  BY <1>1 DEF ClientInv, RunsInv, Fresh, Resources, Idle, Events, Off
<1>4. AnswerInv /\ CellInv
  BY <1>1 DEF AnswerInv, CellInv, NoAnswer
<1> QED
  BY <1>2, <1>3, <1>4 DEF LwInv

LEMMA LwInvariant == Spec => []LwInv
BY Init_Lw, Next_Lw, PTL DEF Spec
(* AT+LWSER: the client that runs registers where the last AT+LWSER        *)
(* answered OK said, as protected, for any addresses and keys; after a     *)
(* restart too, unless its save failed or a later one was saved and had no *)
(* OK: then the client runs for what flash holds.                          *)
THEOREM LwServerAsTold == Spec => []ServerAsTold
<1>1. LwInv => ServerAsTold
  BY NoCommandFacts DEF LwInv, RunsInv, FlashInv, Between, ServerAsTold
<1> QED
  BY LwInvariant, <1>1, PTL

(* Every variable keeps its type; the command that answers is an entry of  *)
(* the tables, for any line.                                               *)
THEOREM LwTypeOK == Spec => []TypeOK
<1>1. LwInv => TypeOK
  <2> SUFFICES ASSUME LwInv PROVE TypeOK
    OBVIOUS
  <2>1. cell = NoCell \/ cell.type \in Types
    BY DEF LwInv, CellInv
  <2> QED
    BY <2>1 DEF LwInv, StoreInv, ClientInv, AnswerInv, TypeOK
<1> QED
  BY LwInvariant, <1>1, PTL

LEMMA AnsweredRight ==
  ASSUME NEW typed \in Names, NEW tail \in Tails, NEW entry, NEW v,
         Answer(typed, tail, entry, v)
  PROVE  RightCommand'
<1>1. answer'.typed = Meant(typed, tail) /\ answer'.entry = Dispatch(Line(typed, tail))
  BY DEF Answer
<1> QED
  BY <1>1, LineFinds DEF RightCommand

(* The command a line reaches is the one that was typed, for every entry   *)
(* of the tables and every ending; one with a slip reaches none.  It needs *)
(* no invariant: each answer is right by itself.                           *)
THEOREM LwRightCommand == Spec => []RightCommand
<1>1. Init => RightCommand
  BY DEF Init, NoAnswer, RightCommand
<1>2. RightCommand /\ [Next]_vars => RightCommand'
  <2> SUFFICES ASSUME RightCommand, [Next]_vars PROVE RightCommand'
    OBVIOUS
  <2>a. "AT+LWSER" \in Names /\ Set \in Tails /\ Read \in Tails
    BY TypedNames DEF Tails
  <2>0. CASE SaveServerAny
    BY <2>0 DEF SaveServerAny, SaveServer, RightCommand
  <2>1. CASE \E urlFound \in BOOLEAN : StartServer(urlFound)
    <3>1. \E v : Answer("AT+LWSER", Set, "AT+LWSER", v)
      BY <2>1 DEF StartServer
    <3> QED
      BY <2>a, <3>1, AnsweredRight
  <2>2. CASE SetServerRefused
    BY <2>a, <2>2, AnsweredRight DEF SetServerRefused
  <2>3. CASE ReadServer
    BY <2>a, <2>3, AnsweredRight DEF ReadServer
  <2>4. CASE WriteAny
    <3>1. PICK type \in Types : Answer(CommandOf[type], Set, CommandOf[type], "OK")
      BY <2>4 DEF WriteAny, WriteValue
    <3> QED
      BY <2>a, <3>1, TypedNames, AnsweredRight
  <2>5. CASE OtherAny
    <3>1. \E typed \in Names, tail \in Tails, v \in {"OK", "ERROR"} :
            Answer(typed, tail, Dispatch(Line(typed, tail)), v)
      BY <2>5 DEF OtherAny, Other
    <3> QED
      BY <3>1, AnsweredRight
  <2>6. CASE \E urlFound \in BOOLEAN : Reset(urlFound)
    BY <2>6 DEF Reset, NoAnswer, RightCommand
  <2>7. CASE (\E e \in Events \ {"none"} : Report(e)) \/ UNCHANGED vars
    BY <2>7 DEF Report, vars, RightCommand
  <2> QED
    BY <2>0, <2>1, <2>2, <2>3, <2>4, <2>5, <2>6, <2>7 DEF Next
<1> QED
  BY <1>1, <1>2, PTL DEF Spec

-----------------------------------------------------------------------------
(* The arithmetic of the values *)

LEMMA Remainders ==
  ASSUME NEW M \in Nat, M > 0, NEW v \in Int
  PROVE  /\ v >= 0 /\ v < M => v % M = v /\ v \div M = 0
         /\ v >= -M /\ v < 0 => v % M = v + M
<1>1. ASSUME v >= 0, v < M PROVE v % M = v /\ v \div M = 0
  BY <1>1, Z3
<1>2. ASSUME v >= -M, v < 0 PROVE v % M = v + M
  BY <1>2, Z3
<1> QED
  BY <1>1, <1>2

LEMMA JoinedWords ==
  ASSUME NEW M \in Nat, M > 0, NEW q \in Int, NEW r \in 0 .. M - 1
  PROVE  (q * M + r) % M = r /\ (q * M + r) \div M = q
<1>1. (q * M + r) % M = r
  BY Z3
<1>2. (q * M + r) \div M = q
  BY Z3
<1> QED
  BY <1>1, <1>2

(* A number of so many bits, and half of them. *)
Halved(bits, H) == bits \in Nat /\ H \in Nat \ {0} /\ 2^bits = 2 * H /\ 2^(bits - 1) = H

LEMMA HalfOfBits ==
  ASSUME NEW n \in 1 .. 4 * Unit
  PROVE  Halved(n, 2^(n - 1))
<1>1. Unit \in Nat \ {0} /\ n - 1 \in 0 .. 4 * Unit /\ 1 \in 0 .. 4 * Unit /\ n = 1 + (n - 1)
  BY LwValueAssumption
<1>2. 2^(1 + (n - 1)) = 2^1 * 2^(n - 1) /\ 2^(n - 1) \in Nat \ {0}
  BY <1>1, PowersOfTwo
<1>3. 2^1 = 2
  OBVIOUS
<1>4. 2^n = 2^(1 + (n - 1))
  BY <1>1
<1> QED
  BY <1>1, <1>2, <1>3, <1>4 DEF Halved

(* In its range a number stays what it is; the first above becomes the     *)
(* last below.                                                             *)
LEMMA SignedIs ==
  ASSUME NEW bits, NEW H, Halved(bits, H)
  PROVE  /\ \A v \in (-H) .. (H - 1) : AsSigned(v, bits) = v
         /\ AsSigned(H, bits) = -H
<1>1. H \in Nat /\ H > 0 /\ 2^bits = 2 * H /\ 2^(bits - 1) = H
  BY DEF Halved
<1>2. ASSUME NEW v \in (-H) .. (H - 1) PROVE AsSigned(v, bits) = v
  <2>1. v % (2 * H) = IF v >= 0 THEN v ELSE v + 2 * H
    BY <1>1, Remainders
  <2> QED
    BY <1>1, <2>1 DEF AsSigned
<1>3. AsSigned(H, bits) = -H
  <2>1. H % (2 * H) = H
    BY <1>1, Remainders
  <2> QED
    BY <1>1, <2>1 DEF AsSigned
<1> QED
  BY <1>2, <1>3

(* Words: W numbers, and the double words built of two of them. *)
LEMMA WordFacts ==
  \E H \in Nat \ {0} :
    /\ Halved(Word, H) /\ Halved(2 * Word, (2 * H) * H)
    /\ 2^(2 * Word) = (2 * H) * (2 * H) /\ 2^(2 * Word - 1) = (2 * H) * H
<1> DEFINE U == Unit
           H == 2^(4 * Unit - 1)
<1>1. Unit \in Nat \ {0} /\ 4 * Unit \in 1 .. 4 * Unit /\ 4 * Unit - 1 \in 0 .. 4 * Unit
      /\ Word = 4 * Unit
  BY LwValueAssumption DEF Word
<1>2. Halved(Word, H)
  BY <1>1, HalfOfBits
<1>3. /\ 2^(4 * Unit + 4 * Unit) = 2^(4 * Unit) * 2^(4 * Unit)
      /\ 2^(4 * Unit + (4 * Unit - 1)) = 2^(4 * Unit) * H
  BY <1>1, PowersOfTwo
<1>4. /\ 2 * Word = 4 * Unit + 4 * Unit /\ 2 * Word - 1 = 4 * Unit + (4 * Unit - 1)
      /\ 2 * Word \in Nat
  BY <1>1
<1>5. H \in Nat \ {0} /\ 2^(4 * Unit) = 2 * H
  BY <1>1, <1>2 DEF Halved
<1> HIDE DEF H
<1>6. 2^(2 * Word) = (2 * H) * (2 * H) /\ 2^(2 * Word - 1) = (2 * H) * H
  BY <1>3, <1>4, <1>5
<1>7. (2 * H) * (2 * H) = 2 * ((2 * H) * H) /\ (2 * H) * H \in Nat \ {0}
  BY <1>5
<1>8. Halved(2 * Word, (2 * H) * H)
  BY <1>4, <1>6, <1>7 DEF Halved
<1> QED
  BY <1>2, <1>5, <1>6, <1>8
(* The numbers of a command are words. *)
IsWords(u) == \A i \in 0 .. 4 : u[i] \in 0 .. (2^Word - 1)

LEMMA ParamsAreWords ==
  ASSUME NEW type \in Types, NEW u \in Params(type)
  PROVE  IsWords(u)
<1>1. PICK H \in Nat \ {0} : 2^Word = 2 * H
  BY WordFacts DEF Halved
<1>2. \A v \in WordValues : v \in 0 .. (2^Word - 1)
  BY AtLwm2mAssumption
<1>3. PICK used : \E w \in [used -> WordValues] :
                    u = [i \in 0 .. 4 |-> IF i \in used THEN w[i] ELSE 0]
  BY DEF Params
<1>4. PICK w \in [used -> WordValues] : u = [i \in 0 .. 4 |-> IF i \in used THEN w[i] ELSE 0]
  BY <1>3
<1>5. ASSUME NEW i \in 0 .. 4 PROVE u[i] \in 0 .. (2^Word - 1)
  <2>1. CASE i \in used
    BY <1>2, <1>4, <2>1
  <2>2. CASE i \notin used
    BY <1>1, <1>4, <2>2
  <2> QED
    BY <2>1, <2>2
<1> QED
  BY <1>5 DEF IsWords

ReadsBack(type, u) == Printed(type, Stored(type, u)) = Asked(type, u)

LEMMA NarrowReadsBack ==
  ASSUME NEW type \in Narrow, NEW u, IsWords(u), Holds(type, u)
  PROVE  ReadsBack(type, u)
<1> DEFINE n == Width[type]
           H == 2^(n - 1)
           m == u[0]
           neg == NegatedIf(u[1], m)
<1>1. n \in 1 .. 4 * Unit
  BY LwValueAssumption DEF Narrow, Width
<1>2. Halved(n, H)
  BY <1>1, HalfOfBits
<1>3. Asked(type, u) = <<neg>> /\ Stored(type, u) = AsSigned(NegatedIf(u[1], AsSigned(m, n)), n)
  BY DEF Asked, Stored, Narrow, Plain
<1>4. neg \in (-H) .. (H - 1)
  <2>1. Asked(type, u)[1] \in (-H) .. (H - 1)
    BY DEF Holds, Narrow, Plain
  <2> QED
    BY <1>3, <2>1
<1>5. m \in Nat
  <2>1. PICK K \in Nat \ {0} : 2^Word = 2 * K
    BY WordFacts DEF Halved
  <2>2. u[0] \in 0 .. (2^Word - 1)
    BY DEF IsWords
  <2> QED
    BY <2>1, <2>2
<1>6. Printed(type, Stored(type, u)) = <<Stored(type, u)>>
  BY DEF Printed, Narrow, Plain
<1> HIDE DEF n, H, m
<1>7. H \in Nat \ {0}
  BY <1>2 DEF Halved
<1>8. /\ \A v \in (-H) .. (H - 1) : AsSigned(v, n) = v
      /\ AsSigned(H, n) = -H
  BY <1>2, SignedIs
<1>9. AsSigned(NegatedIf(u[1], AsSigned(m, n)), n) = neg
  <2>1. CASE u[1] # 0
    <3>1. m <= H /\ neg = -m
      BY <1>4, <1>5, <1>7, <2>1 DEF NegatedIf
    <3>2. CASE m < H
      <4>1. AsSigned(m, n) = m
        BY <1>5, <1>7, <1>8, <3>2
      <4>2. AsSigned(-m, n) = -m
        BY <1>4, <1>8, <3>1
      <4> QED
        BY <2>1, <3>1, <4>1, <4>2 DEF NegatedIf
    <3>3. CASE m = H
      <4>1. AsSigned(m, n) = -H /\ -(-H) = H
        BY <1>7, <1>8, <3>3
      <4> QED
        BY <1>8, <2>1, <3>1, <3>3, <4>1 DEF NegatedIf
    <3> QED
      BY <1>5, <1>7, <3>1, <3>2, <3>3
  <2>2. CASE u[1] = 0
    <3>1. neg = m /\ m \in (-H) .. (H - 1)
      BY <1>4, <2>2 DEF NegatedIf
    <3>2. AsSigned(m, n) = m
      BY <1>8, <3>1
    <3> QED
      BY <2>2, <3>1, <3>2 DEF NegatedIf
  <2> QED
    BY <2>1, <2>2
<1> QED
  BY <1>3, <1>6, <1>9 DEF ReadsBack

LEMMA SignedReadsBack ==
  ASSUME NEW u, IsWords(u), Holds("s64", u)
  PROVE  ReadsBack("s64", u)
<1> DEFINE v == NegatedIf(u[2], Join2(u[0], u[1]))
<1>1. PICK K \in Nat \ {0} : Halved(2 * Word, (2 * K) * K) /\ 2^(2 * Word - 1) = (2 * K) * K
  BY WordFacts
<1> DEFINE H == (2 * K) * K
<1>2. 2 * Word - 1 = Width["s64"] - 1
  BY LwValueAssumption DEF Word, Width
<1>3. Asked("s64", u) = <<v>> /\ Stored("s64", u) = AsSigned(v, 2 * Word)
      /\ Printed("s64", Stored("s64", u)) = <<Stored("s64", u)>>
  BY DEF Asked, Stored, Printed, Narrow, Plain
<1>4. Asked("s64", u)[1] \in (-H) .. (H - 1)
  BY <1>1, <1>2 DEF Holds, Narrow, Plain
<1> HIDE DEF v, H
<1>5. AsSigned(v, 2 * Word) = v
  BY <1>1, <1>3, <1>4, SignedIs DEF H
<1> QED
  BY <1>3, <1>5 DEF ReadsBack

LEMMA PlainReadsBack ==
  ASSUME NEW type \in Plain \cup {"u64", "bool"}, NEW u, IsWords(u), Holds(type, u)
  PROVE  ReadsBack(type, u)
<1>1. CASE type \in Plain
  <2> DEFINE n == Width[type]
             H == 2^(n - 1)
  <2>1. n \in 1 .. 4 * Unit
    BY <1>1, LwValueAssumption DEF Plain, Width
  <2>2. Halved(n, H)
    BY <2>1, HalfOfBits
  <2>3. Asked(type, u) = <<u[0]>> /\ Stored(type, u) = u[0] % 2^n
        /\ Printed(type, Stored(type, u)) = <<Stored(type, u)>>
    BY <1>1 DEF Asked, Stored, Printed, Narrow, Plain
  <2>4. u[0] < 2^n
    <3>1. Asked(type, u)[1] < 2^n
      BY <1>1 DEF Holds, Narrow, Plain
    <3> QED
      BY <2>3, <3>1
  <2>5. u[0] \in Nat
    <3>1. PICK K \in Nat \ {0} : 2^Word = 2 * K
      BY WordFacts DEF Halved
    <3>2. u[0] \in 0 .. (2^Word - 1)
      BY DEF IsWords
    <3> QED
      BY <3>1, <3>2
  <2> HIDE DEF n, H
  <2>6. 2^n \in Nat /\ 2^n > 0
    BY <2>2 DEF Halved
  <2>7. u[0] % 2^n = u[0]
    BY <2>4, <2>5, <2>6, Remainders
  <2> QED
    BY <2>3, <2>7 DEF ReadsBack
<1>2. CASE type = "u64"
  BY <1>2 DEF ReadsBack, Asked, Stored, Printed, Narrow, Plain
<1>3. CASE type = "bool"
  <2>1. Stored("bool", u) = (u[0] # 0)
    BY DEF Stored, Narrow, Plain
  <2>2. Printed("bool", Stored("bool", u)) = <<IF u[0] # 0 THEN 1 ELSE 0>>
    BY <2>1 DEF Printed
  <2> QED
    BY <1>3, <2>2 DEF ReadsBack, Asked, Flag, Narrow, Plain
<1> QED
  BY <1>1, <1>2, <1>3
(* The integer part of a float, with its sign, and what is printed of it.  *)
LEMMA AbsIs ==
  ASSUME NEW H, Halved(Word, H), NEW m \in 1 .. (H - 1), NEW flag,
         NEW v, v = NegatedIf(flag, m)
  PROVE  /\ v \in (-H) .. (H - 1) /\ IntAbs(v) = m
         /\ (IF v > 0 THEN 0 ELSE 1) = Flag(flag)
<1>1. H \in Nat \ {0}
  BY DEF Halved
<1>2. \A w \in (-H) .. (H - 1) : AsSigned(w, Word) = w
  BY SignedIs
<1>3. v = IF flag # 0 THEN -m ELSE m
  BY DEF NegatedIf
<1>4. v \in (-H) .. (H - 1) /\ m \in (-H) .. (H - 1) /\ Abs(v) = m
  BY <1>1, <1>3 DEF Abs
<1>5. IntAbs(v) = m
  BY <1>2, <1>4 DEF IntAbs
<1>6. (IF v > 0 THEN 0 ELSE 1) = Flag(flag)
  BY <1>1, <1>3 DEF Flag
<1> QED
  BY <1>4, <1>5, <1>6

LEMMA FloatReadsBack ==
  ASSUME NEW u, IsWords(u), Holds("f32", u)
  PROVE  ReadsBack("f32", u)
<1>1. PICK H \in Nat \ {0} : Halved(Word, H)
  BY WordFacts
<1>2. 2^(Word - 1) = H /\ 2^Word = 2 * H
  BY <1>1 DEF Halved
<1>3. u[0] \in 1 .. (H - 1) /\ u[1] \in 0 .. (H - 1)
  <2>1. u[0] \in 1 .. (2^(Word - 1) - 1) /\ u[1] < 2^(Word - 1)
    BY DEF Holds, Narrow, Plain
  <2>2. u[1] \in 0 .. (2^Word - 1)
    BY DEF IsWords
  <2> QED
    BY <1>2, <2>1, <2>2
<1>4. \A w \in (-H) .. (H - 1) : AsSigned(w, Word) = w
  BY <1>1, SignedIs
<1>5. AsSigned(u[0], Word) = u[0] /\ AsSigned(u[1], Word) = u[1]
  BY <1>3, <1>4
<1> DEFINE v == NegatedIf(u[2], u[0])
<1>6. /\ v \in (-H) .. (H - 1) /\ IntAbs(v) = u[0]
      /\ (IF v > 0 THEN 0 ELSE 1) = Flag(u[2])
  BY <1>1, <1>3, AbsIs
<1> HIDE DEF v
<1>7. Stored("f32", u) = <<v, u[1]>>
  <2>1. Stored("f32", u)
          = <<AsSigned(NegatedIf(u[2], AsSigned(u[0], Word)), Word), AsSigned(u[1], Word)>>
    BY DEF Stored, Narrow, Plain
  <2>2. AsSigned(v, Word) = v
    BY <1>4, <1>6
  <2> QED
    BY <1>5, <2>1, <2>2 DEF v
<1>8. Printed("f32", <<v, u[1]>>) = <<u[0], u[1], Flag(u[2])>>
  BY <1>6 DEF Printed, Negative
<1>9. Asked("f32", u) = <<u[0], u[1], Flag(u[2])>>
  BY DEF Asked, Narrow, Plain
<1> QED
  BY <1>7, <1>8, <1>9 DEF ReadsBack

(* A double word is taken apart into the words it was built of.            *)
LEMMA WordsOfDouble ==
  ASSUME NEW H \in Nat \ {0}, Halved(Word, H), Halved(2 * Word, (2 * H) * H),
         NEW a \in 0 .. (2 * H - 1), NEW b \in 0 .. (2 * H - 1)
  PROVE  Words(AsSigned(Join2(a, b), 2 * Word)) = <<a, b>>
<1> DEFINE W == 2 * H
           D == W * H
           M == 2 * D
           j == a * W + b
<1>1. W \in Nat /\ W > 0 /\ a \in 0 .. (W - 1) /\ b \in 0 .. (W - 1) /\ 2^Word = W
  BY DEF Halved
<1>2. D \in Nat /\ M = W * W /\ 2^(2 * Word) = M /\ 2^(2 * Word - 1) = D
  BY DEF Halved
<1>3. Join2(a, b) = j
  BY <1>1 DEF Join2
<1>4. j \in 0 .. (M - 1)
  <2>1. j >= 0
    BY <1>1
  <2>2. a * W + W <= W * W
    BY <1>1
  <2> QED
    BY <1>1, <1>2, <2>1, <2>2
<1>5. j - M = (a - W) * W + b
  BY <1>1, <1>2
<1> DEFINE v == AsSigned(Join2(a, b), 2 * Word)
<1>6. v = j \/ v = (a - W) * W + b
  <2>1. v = LET m == j % M IN IF m < D THEN m ELSE m - M
    BY <1>2, <1>3 DEF AsSigned
  <2> HIDE DEF D, j, v
  <2>2. j % M = j
    BY <1>2, <1>4, Remainders
  <2> QED
    BY <1>5, <2>1, <2>2
<1>7. v % W = b /\ (v \div W) % W = a
  <2> HIDE DEF W, D, v
  <2>1. CASE v = j
    <3>1. (a * W + b) % W = b /\ (a * W + b) \div W = a /\ a % W = a
      BY <1>1, JoinedWords, Remainders
    <3> QED
      BY <2>1, <3>1
  <2>2. CASE v = (a - W) * W + b
    <3>1. ((a - W) * W + b) % W = b /\ ((a - W) * W + b) \div W = a - W
      BY <1>1, JoinedWords
    <3>2. (a - W) % W = a
      BY <1>1, Remainders
    <3> QED
      BY <2>2, <3>1, <3>2
  <2> QED
    BY <1>6, <2>1, <2>2
<1> QED
  BY <1>1, <1>7 DEF Words

LEMMA DoubleReadsBack ==
  ASSUME NEW u, IsWords(u), Holds("f64", u)
  PROVE  ReadsBack("f64", u)
<1>1. PICK H \in Nat \ {0} : Halved(Word, H) /\ Halved(2 * Word, (2 * H) * H)
  BY WordFacts
<1>2. 2^(Word - 1) = H /\ 2^Word = 2 * H
  BY <1>1 DEF Halved
<1>3. u[0] = 0 /\ u[1] \in 1 .. (H - 1)
  <2>1. u[0] = 0 /\ u[1] \in 1 .. (2^(Word - 1) - 1)
    BY DEF Holds, Narrow, Plain
  <2> QED
    BY <1>2, <2>1
<1>4. u[2] \in 0 .. (2 * H - 1) /\ u[3] \in 0 .. (2 * H - 1)
  BY <1>2 DEF IsWords
<1> DEFINE v == NegatedIf(u[4], u[1])
           w == AsSigned(Join2(u[2], u[3]), 2 * Word)
<1>5. Words(w) = <<u[2], u[3]>>
  BY <1>1, <1>4, WordsOfDouble
<1>6. /\ v \in (-H) .. (H - 1) /\ IntAbs(v) = u[1]
      /\ (IF v > 0 THEN 0 ELSE 1) = Flag(u[4])
  BY <1>1, <1>3, AbsIs
<1>7. Join2(0, u[1]) = u[1]
  BY <1>2, <1>3 DEF Join2
<1>8. AsSigned(v, 2 * Word) = v
  <2> DEFINE D == (2 * H) * H
  <2>1. H <= D /\ D \in Nat
    OBVIOUS
  <2> HIDE DEF D, v
  <2>2. v \in (-D) .. (D - 1)
    BY <1>6, <2>1
  <2>3. Halved(2 * Word, D)
    BY <1>1 DEF D
  <2> QED
    BY <2>2, <2>3, SignedIs
<1>9. Words(u[1]) = <<0, u[1]>>
  <2>1. u[1] >= 0 /\ u[1] < 2 * H /\ 2 * H \in Nat /\ 2 * H > 0
    BY <1>3
  <2>2. u[1] % (2 * H) = u[1] /\ u[1] \div (2 * H) = 0 /\ 0 % (2 * H) = 0
    BY <1>3, <2>1, Remainders
  <2> QED
    BY <1>2, <2>2 DEF Words
<1> HIDE DEF v, w
<1>10. Stored("f64", u) = <<v, w>>
  <2>1. Stored("f64", u) = <<AsSigned(NegatedIf(u[4], Join2(u[0], u[1])), 2 * Word),
                             AsSigned(Join2(u[2], u[3]), 2 * Word)>>
    BY DEF Stored, Narrow, Plain
  <2> QED
    BY <1>3, <1>7, <1>8, <2>1 DEF v, w
<1>11. Printed("f64", <<v, w>>) = <<0, u[1], u[2], u[3], Flag(u[4])>>
  <2>1. Printed("f64", <<v, w>>)
          = <<Words(IntAbs(v))[1], Words(IntAbs(v))[2], Words(w)[1], Words(w)[2],
              Negative(<<v, w>>)>>
    BY DEF Printed
  <2>2. Negative(<<v, w>>) = Flag(u[4])
    BY <1>6 DEF Negative
  <2> QED
    BY <1>5, <1>6, <1>9, <2>1, <2>2
<1>12. Asked("f64", u) = <<0, u[1], u[2], u[3], Flag(u[4])>>
  BY <1>3 DEF Asked, Narrow, Plain
<1> QED
  BY <1>10, <1>11, <1>12 DEF ReadsBack

LEMMA TypesAre == Types = Narrow \cup {"s64"} \cup Plain \cup {"u64", "bool", "f32", "f64"}
BY DEF Types, Width, Narrow, Plain

(* AT+LWV...: a number written and read back is the number given, for      *)
(* words of every width and all the numbers each type can hold.            *)
THEOREM LwValuesReadBack == Spec => []ValuesReadBack
<1>1. LwInv => ValuesReadBack
  <2> SUFFICES ASSUME LwInv, cell # NoCell, Holds(cell.type, cell.given)
               PROVE  Printed(cell.type, cell.holds) = Asked(cell.type, cell.given)
    BY DEF ValuesReadBack
  <2>1. PICK type \in Types : \E u \in Params(type) :
          cell = [type |-> type, given |-> u, holds |-> Stored(type, u)]
    BY DEF LwInv, CellInv
  <2>2. PICK u \in Params(type) :
          cell = [type |-> type, given |-> u, holds |-> Stored(type, u)]
    BY <2>1
  <2>3. IsWords(u) /\ Holds(type, u)
    BY <2>2, ParamsAreWords
  <2>4. ReadsBack(type, u)
    BY <2>3, TypesAre, NarrowReadsBack, SignedReadsBack, PlainReadsBack, FloatReadsBack,
       DoubleReadsBack
  <2> QED
    BY <2>2, <2>4 DEF ReadsBack
<1> QED
  BY LwInvariant, <1>1, PTL
=============================================================================
