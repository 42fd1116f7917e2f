---------------------------- MODULE Hosts_proofs ----------------------------
(***************************************************************************)
(* Proofs about ports, the game companion, the players' clients and their  *)
(* composition, for any apps, clients, servers, ports, processors and zips. *)
(***************************************************************************)
EXTENDS MCHosts, FiniteSums, TLAPS

Chosen(u) == user[u].at \in {"saveport", "release"}

\* The mutex is held exactly by the goroutine between the query and the choice,
\* which has no port yet.
MutexInv ==
    /\ \A u \in Users : user[u].at = "choose" <=> mutex = u
    /\ \A u \in Users : user[u].at \in {"allocate", "choose"} => user[u].port = 0

\* A port that was just chosen is reserved, in no row, and in no other hands.
FreshInv ==
    \A u \in Users : Chosen(u) =>
        /\ user[u].port \in reserved /\ user[u].port # 0
        /\ \A b \in rows : port[b] # user[u].port
        /\ \A v \in Users : v # u /\ Holds(v, user[u].port) => user[v].app \notin rows /\ ~Chosen(v)

\* p is the only port app a can have: its row has it, and whoever is busy with
\* the app is about to write it.
Settled(a, p) ==
    /\ port[a] = p
    /\ \A v \in Users : ~Idle(v) /\ user[v].app = a => user[v].at = "saverow" /\ user[v].port = p

\* A port in an app's row or in a copy of it is reserved, unless nothing can
\* change it any more: so it can leave the row only if it stays reserved.
RowInv ==
    \A a \in rows, p \in start .. end :
        (port[a] = p \/ \E v \in Users : user[v].app = a /\ user[v].at = "saverow" /\ user[v].port = p)
            => p \in reserved \/ Settled(a, p)

\* The result of the query stays good until the choice.
QueryInv == mutex # Nobody => \A a \in rows : port[a] \in {Null, 0} \cup used \cup reserved

UniqueInv == \A a, b \in rows : port[a] \in start .. end /\ port[b] = port[a] => a = b

PortsInv ==
    /\ MutexInv /\ FreshInv /\ RowInv /\ QueryInv /\ UniqueInv
    /\ NoPortTakenTwice

PortsOK == PortsTypeOK /\ PortsInv

-----------------------------------------------------------------------------
(* Types *)

LEMMA UserTypes ==
    ASSUME user \in [Users -> User], NEW u \in Users
    PROVE  /\ user[u] \in User /\ user[u].port \in {0} \cup (start .. end) /\ user[u].app \in Apps
           /\ user[u].at \in Places /\ user[u].kind \in Kinds
BY DEF User

\* A goroutine that only moves on keeps its request and its copy of the port.
LEMMA MoveEffect ==
    ASSUME user \in [Users -> User], NEW u \in Users, NEW at \in Places, Moves(u, at)
    PROVE  /\ user' \in [Users -> User]
           /\ user'[u].at = at
           /\ user'[u].kind = user[u].kind
           /\ user'[u].app = user[u].app
           /\ user'[u].port = user[u].port
           /\ \A v \in Users \ {u} : user'[v] = user[v]
BY DEF Moves, User

LEMMA PortsInitTypes == PortsInit => PortsTypeOK
BY PortsAssumption DEF PortsInit, PortsTypeOK, User, Kinds, Places

LEMMA PortsNextTypes ==
    ASSUME PortsTypeOK, [PortsNext]_portVars
    PROVE  PortsTypeOK'
<1> USE DEF PortsTypeOK
<1>1. ASSUME NEW u \in Users, NEW kind \in Kinds, NEW a \in Apps, ReadRow(u, kind, a)
      PROVE  PortsTypeOK'
  <2>1. port[a] \in Nat \/ port[a] = Null
    BY PortsAssumption
  <2>2. user' \in [Users -> User]
    BY <1>1, <2>1 DEF ReadRow, User, Places
  <2>3. QED
    BY <1>1, <2>2 DEF ReadRow
<1>2. ASSUME NEW u \in Users, GetUsedPorts(u)
      PROVE  PortsTypeOK'
  BY <1>2, MoveEffect DEF GetUsedPorts, Places
<1>3. ASSUME NEW u \in Users, QueryFails(u)
      PROVE  PortsTypeOK'
  BY <1>3, MoveEffect DEF QueryFails, Places
<1>4. ASSUME NEW u \in Users, ChoosePort(u)
      PROVE  PortsTypeOK'
  <2>1. CASE UNCHANGED reserved /\ Moves(u, "idle")
    BY <1>4, <2>1, MoveEffect DEF ChoosePort, Places
  <2>2. ASSUME NEW p \in Free, reserved' = reserved \cup {p},
               user' = [user EXCEPT ![u] = [@ EXCEPT !.port = p, !.at = "saveport"]]
        PROVE  PortsTypeOK'
    <3>1. p \in start .. end /\ p \in Nat
      BY PortsAssumption DEF Free, Candidates
    <3>2. user' \in [Users -> User]
      BY <2>2, <3>1 DEF User, Places
    <3>3. QED
      BY <1>4, <2>2, <3>1, <3>2 DEF ChoosePort
  <2>3. QED
    BY <1>4, <2>1, <2>2 DEF ChoosePort
<1>5. ASSUME NEW u \in Users, SavePort(u)
      PROVE  PortsTypeOK'
  <2>1. \E at \in Places : Moves(u, at)
    BY <1>5 DEF SavePort, Places
  <2>2. user' \in [Users -> User]
    BY <2>1, MoveEffect
  <2>3. port' \in [Apps -> {Null, 0} \cup (start .. end)]
    BY <1>5, UserTypes DEF SavePort, Written
  <2>4. QED
    BY <1>5, <2>2, <2>3 DEF SavePort
<1>6. ASSUME NEW u \in Users, Release(u)
      PROVE  PortsTypeOK'
  BY <1>6, MoveEffect DEF Release, Places
<1>7. ASSUME NEW u \in Users, SaveRow(u)
      PROVE  PortsTypeOK'
  <2>1. user' \in [Users -> User]
    BY <1>7, MoveEffect DEF SaveRow, Places
  <2>2. port' \in [Apps -> {Null, 0} \cup (start .. end)]
    BY <1>7, UserTypes DEF SaveRow, Written
  <2>3. QED
    BY <1>7, <2>1, <2>2 DEF SaveRow
<1>8. ASSUME NEW u \in Users, GiveUp(u)
      PROVE  PortsTypeOK'
  BY <1>8, MoveEffect DEF GiveUp, Places
<1>9. ASSUME NEW a \in Apps, DeleteApp(a)
      PROVE  PortsTypeOK'
  BY <1>9 DEF DeleteApp
<1>10. CASE Restart
  BY <1>10 DEF Restart, User, Places
<1>11. CASE UNCHANGED portVars
  BY <1>11 DEF portVars
<1>12. QED
  BY <1>1, <1>2, <1>3, <1>4, <1>5, <1>6, <1>7, <1>8, <1>9, <1>10, <1>11 DEF PortsNext, Use

-----------------------------------------------------------------------------
(* The invariant *)

LEMMA PortsInitInv == PortsInit => PortsInv
BY PortsAssumption DEF PortsInit, PortsInv, MutexInv, FreshInv, RowInv, QueryInv, UniqueInv,
   NoPortTakenTwice, Chosen, Holds, Idle

\* A goroutine leaves: it holds no port and no mutex any more.
LEMMA LeaveKept ==
    ASSUME PortsOK, NEW u \in Users, Moves(u, "idle"), UNCHANGED <<rows, port, reserved>>,
           mutex' = (IF mutex = u THEN Nobody ELSE mutex), used' = used \/ mutex' = Nobody
    PROVE  PortsInv'
<1> USE DEF PortsOK, PortsInv, PortsTypeOK, Idle, Holds, Chosen
<1>1. /\ user'[u].at = "idle" /\ \A v \in Users \ {u} : user'[v] = user[v]
  BY MoveEffect DEF Places
<1>2. MutexInv'
  BY <1>1, PortsAssumption DEF MutexInv
<1>3. FreshInv'
  BY <1>1 DEF FreshInv
<1>4. RowInv'
  <2> SUFFICES ASSUME NEW a \in rows, NEW p \in start .. end, p \notin reserved,
                      port[a] = p \/ \E v \in Users : user'[v].app = a
                                        /\ user'[v].at = "saverow" /\ user'[v].port = p
               PROVE  Settled(a, p)'
    BY DEF RowInv
  <2>1. Settled(a, p)
    BY <1>1 DEF RowInv
  <2>2. QED
    BY <1>1, <2>1 DEF Settled
<1>5. QueryInv'
  BY DEF QueryInv
<1>6. UniqueInv'
  BY DEF UniqueInv
<1>7. NoPortTakenTwice'
  BY <1>1 DEF NoPortTakenTwice
<1>8. QED
  BY <1>2, <1>3, <1>4, <1>5, <1>6, <1>7

LEMMA ReadRowKept ==
    ASSUME PortsOK, NEW u \in Users, NEW kind \in Kinds, NEW a \in Apps, ReadRow(u, kind, a)
    PROVE  PortsInv'
<1> USE DEF PortsOK, PortsInv, PortsTypeOK, Idle, Holds, Chosen
<1> DEFINE p == IF port[a] = Null THEN 0 ELSE port[a]
<1>1. /\ user'[u].app = a /\ user'[u].port = p
      /\ user'[u].at \in {"allocate", "saverow"}
      /\ user'[u].at = "allocate" => p = 0
      /\ user[u].at = "idle" /\ a \in rows
      /\ \A v \in Users \ {u} : user'[v] = user[v]
      /\ UNCHANGED <<rows, port, reserved, mutex, used>>
  BY DEF ReadRow
<1>2. p \in {0} \cup (start .. end) /\ (p # 0 => port[a] = p)
  BY PortsAssumption
<1> HIDE DEF p
<1>3. MutexInv'
  BY <1>1, <1>2 DEF MutexInv
<1>4. FreshInv'
  <2> SUFFICES ASSUME NEW v \in Users, Chosen(v)'
               PROVE  /\ user'[v].port \in reserved /\ user'[v].port # 0
                      /\ \A b \in rows : port[b] # user'[v].port
                      /\ \A w \in Users : w # v /\ Holds(w, user[v].port)'
                            => user'[w].app \notin rows /\ ~Chosen(w)'
    BY <1>1 DEF FreshInv
  <2>1. v # u /\ user'[v] = user[v]
    BY <1>1
  <2>2. user[v].port # p
    BY <1>1, <1>2, <2>1 DEF FreshInv
  <2>3. QED
    BY <1>1, <2>1, <2>2 DEF FreshInv
<1>5. RowInv'
  <2> SUFFICES ASSUME NEW b \in rows, NEW q \in start .. end, q \notin reserved,
                      port[b] = q \/ \E v \in Users : user'[v].app = b
                                        /\ user'[v].at = "saverow" /\ user'[v].port = q
               PROVE  Settled(b, q)'
    BY <1>1 DEF RowInv
  <2>1. port[b] = q \/ \E v \in Users : user[v].app = b
                                        /\ user[v].at = "saverow" /\ user[v].port = q
    BY <1>1, <1>2, PortsAssumption
  <2>2. Settled(b, q)
    BY <2>1 DEF RowInv
  <2>3. ASSUME NEW v \in Users, user'[v].at # "idle", user'[v].app = b
        PROVE  user'[v].at = "saverow" /\ user'[v].port = q
    <3>1. CASE v = u
      <4>1. p = q /\ q # 0
        BY <1>1, <2>2, <2>3, <3>1, PortsAssumption DEF Settled, p
      <4>2. QED
        BY <1>1, <3>1, <4>1
    <3>2. CASE v # u
      BY <1>1, <2>2, <2>3, <3>2 DEF Settled
    <3>3. QED
      BY <3>1, <3>2
  <2>4. QED
    BY <1>1, <2>2, <2>3 DEF Settled
<1>6. QueryInv' /\ UniqueInv'
  BY <1>1 DEF QueryInv, UniqueInv
<1>7. NoPortTakenTwice'
  <2> SUFFICES ASSUME NEW v \in Users, NEW q \in start .. end, Holds(v, q)', user'[v].app \in rows
               PROVE  /\ \A b \in rows : port[b] = q => b = user'[v].app
                      /\ \A w \in Users : Holds(w, q)' /\ user'[w].app \in rows
                            => user'[w].app = user'[v].app
    BY <1>1 DEF NoPortTakenTwice
  <2>1. CASE v = u
    <3>1. port[a] = q /\ user'[v].app = a
      BY <1>1, <1>2, <2>1
    <3>2. \A b \in rows : port[b] = q => b = a
      BY <1>1, <3>1 DEF UniqueInv
    <3>3. \A w \in Users \ {u} : Holds(w, q) /\ user[w].app \in rows => user[w].app = a
      BY <1>1, <3>1 DEF NoPortTakenTwice
    <3>4. QED
      BY <1>1, <2>1, <3>1, <3>2, <3>3
  <2>2. CASE v # u
    <3>1. /\ \A b \in rows : port[b] = q => b = user[v].app
          /\ \A w \in Users : Holds(w, q) /\ user[w].app \in rows => user[w].app = user[v].app
      BY <1>1, <2>2 DEF NoPortTakenTwice
    <3>2. QED
      BY <1>1, <1>2, <2>2, <3>1
  <2>3. QED
    BY <2>1, <2>2
<1>8. QED
  BY <1>3, <1>4, <1>5, <1>6, <1>7

LEMMA GetUsedPortsKept ==
    ASSUME PortsOK, NEW u \in Users, GetUsedPorts(u)
    PROVE  PortsInv'
<1> USE DEF PortsOK, PortsInv, PortsTypeOK, Idle, Holds, Chosen
<1>1. /\ user'[u].at = "choose" /\ user'[u].port = user[u].port /\ user'[u].app = user[u].app
      /\ \A v \in Users \ {u} : user'[v] = user[v]
      /\ user[u].at = "allocate" /\ user[u].port = 0 /\ mutex = Nobody
      /\ UNCHANGED <<rows, port, reserved>> /\ mutex' = u
  BY MoveEffect DEF GetUsedPorts, Places, MutexInv
<1>2. MutexInv'
  BY <1>1, PortsAssumption DEF MutexInv
<1>3. FreshInv'
  BY <1>1 DEF FreshInv
<1>4. RowInv'
  <2> SUFFICES ASSUME NEW a \in rows, NEW p \in start .. end, p \notin reserved,
                      port[a] = p \/ \E v \in Users : user'[v].app = a
                                        /\ user'[v].at = "saverow" /\ user'[v].port = p
               PROVE  Settled(a, p)'
    BY <1>1 DEF RowInv
  <2>1. Settled(a, p)
    BY <1>1 DEF RowInv
  <2>2. QED
    BY <1>1, <2>1 DEF Settled
<1>5. QueryInv'
  BY <1>1 DEF QueryInv, GetUsedPorts
<1>6. UniqueInv' /\ NoPortTakenTwice'
  BY <1>1 DEF UniqueInv, NoPortTakenTwice
<1>7. QED
  BY <1>2, <1>3, <1>4, <1>5, <1>6

LEMMA ChoosePortKept ==
    ASSUME PortsOK, NEW u \in Users, ChoosePort(u)
    PROVE  PortsInv'
<1> USE DEF PortsOK, PortsInv, PortsTypeOK, Idle, Holds, Chosen
<1>1. CASE Moves(u, "idle") /\ UNCHANGED reserved
  BY <1>1, LeaveKept DEF ChoosePort
<1>2. ASSUME NEW p \in Free, reserved' = reserved \cup {p},
             user' = [user EXCEPT ![u] = [@ EXCEPT !.port = p, !.at = "saveport"]]
      PROVE  PortsInv'
  <2>1. /\ user'[u].at = "saveport" /\ user'[u].port = p /\ user'[u].app = user[u].app
        /\ \A v \in Users \ {u} : user'[v] = user[v]
        /\ user[u].at = "choose" /\ mutex = u
        /\ UNCHANGED <<rows, port>> /\ mutex' = Nobody
    <3>1. user[u] \in User
      OBVIOUS
    <3>2. QED
      BY <1>2, <3>1 DEF ChoosePort, User
  <2>2. /\ p \in start .. end /\ p # 0 /\ p \notin reserved
        /\ \A a \in rows : port[a] # p
    BY <2>1, PortsAssumption DEF Free, Candidates, QueryInv
  <2>3. \A v \in Users \ {u} : Holds(v, p) => user[v].app \notin rows /\ ~Chosen(v)
    <3> SUFFICES ASSUME NEW v \in Users, v # u, Holds(v, p),
                        user[v].app \in rows \/ Chosen(v)
                 PROVE  FALSE
      OBVIOUS
    <3>1. user[v].at \in Places
      BY UserTypes
    <3>2. CASE Chosen(v)
      BY <2>2, <3>2 DEF FreshInv
    <3>3. CASE user[v].at = "saverow" /\ user[v].app \in rows
      BY <2>2, <3>3 DEF RowInv, Settled
    <3>4. CASE user[v].at \in {"allocate", "choose"}
      BY <2>2, <3>4 DEF MutexInv
    <3>5. QED
      BY <3>1, <3>2, <3>3, <3>4 DEF Places
  <2>4. MutexInv'
    BY <2>1, PortsAssumption DEF MutexInv
  <2>5. FreshInv'
    <3> SUFFICES ASSUME NEW v \in Users, Chosen(v)'
                 PROVE  /\ user'[v].port \in reserved' /\ user'[v].port # 0
                        /\ \A b \in rows : port[b] # user'[v].port
                        /\ \A w \in Users : w # v /\ Holds(w, user[v].port)'
                              => user'[w].app \notin rows /\ ~Chosen(w)'
      BY <2>1 DEF FreshInv
    <3>1. CASE v = u
      BY <1>2, <2>1, <2>2, <2>3, <3>1
    <3>2. CASE v # u
      BY <1>2, <2>1, <2>2, <3>2 DEF FreshInv
    <3>3. QED
      BY <3>1, <3>2
  <2>6. RowInv'
    <3> SUFFICES ASSUME NEW a \in rows, NEW q \in start .. end, q \notin reserved', 
                        port[a] = q \/ \E v \in Users : user'[v].app = a
                                          /\ user'[v].at = "saverow" /\ user'[v].port = q
                 PROVE  Settled(a, q)'
      BY <2>1 DEF RowInv
    <3>1. Settled(a, q)
      BY <1>2, <2>1 DEF RowInv
    <3>2. user[u].app # a
      BY <2>1, <3>1 DEF Settled
    <3>3. QED
      BY <2>1, <3>1, <3>2 DEF Settled
  <2>7. QueryInv' /\ UniqueInv'
    BY <2>1 DEF QueryInv, UniqueInv
  <2>8. NoPortTakenTwice'
    <3> SUFFICES ASSUME NEW v \in Users, NEW q \in start .. end, Holds(v, q)', user'[v].app \in rows
                 PROVE  /\ \A b \in rows : port[b] = q => b = user'[v].app
                        /\ \A w \in Users : Holds(w, q)' /\ user'[w].app \in rows
                              => user'[w].app = user'[v].app
      BY <2>1 DEF NoPortTakenTwice
    <3>1. CASE v = u
      BY <2>1, <2>2, <2>3, <3>1
    <3>2. CASE v # u
      BY <2>1, <2>2, <2>3, <3>2 DEF NoPortTakenTwice
    <3>3. QED
      BY <3>1, <3>2
  <2>9. QED
    BY <2>4, <2>5, <2>6, <2>7, <2>8
<1>3. QED
  BY <1>1, <1>2 DEF ChoosePort

\* A port that is written into the row of a: whoever wrote it had it in hand.
LEMMA WriteKept ==
    ASSUME PortsOK, NEW u \in Users, NEW at \in {"idle", "saverow"}, Moves(u, at),
           user[u].at \in {"saveport", "saverow"},
           at = "saverow" => user[u].at = "saveport",
           CanWrite(user[u].app, user[u].port),
           port' = Written(user[u].app, user[u].port),
           UNCHANGED <<rows, reserved, mutex, used>>
    PROVE  PortsInv'
<1> USE DEF PortsOK, PortsInv, PortsTypeOK, Idle, Holds, Chosen
<1> DEFINE c == user[u].app
           r == user[u].port
<1>1. /\ user'[u].at = at /\ user'[u].port = r /\ user'[u].app = c
      /\ \A v \in Users \ {u} : user'[v] = user[v]
  BY MoveEffect DEF Places
<1>2. c \in Apps /\ r \in {0} \cup (start .. end)
  BY UserTypes
<1>3. \A a \in rows : port'[a] = (IF a = c THEN r ELSE port[a])
  BY <1>2 DEF Written
<1>4. c \in rows => r = 0 \/ r \in reserved \/ Settled(c, r)
  BY <1>2 DEF FreshInv, RowInv
<1>5. \A b \in rows : b # c => port[b] # r
  BY DEF CanWrite
<1>6. MutexInv'
  BY <1>1 DEF MutexInv
<1>7. FreshInv'
  <2> SUFFICES ASSUME NEW v \in Users, Chosen(v)'
               PROVE  /\ user'[v].port \in reserved /\ user'[v].port # 0
                      /\ \A b \in rows : port'[b] # user'[v].port
                      /\ \A w \in Users : w # v /\ Holds(w, user[v].port)'
                            => user'[w].app \notin rows /\ ~Chosen(w)'
    BY DEF FreshInv
  <2>1. v # u /\ user'[v] = user[v]
    BY <1>1
  <2>2. c \in rows => r # user[v].port
    BY <2>1 DEF FreshInv
  <2>3. QED
    BY <1>1, <1>3, <2>1, <2>2 DEF FreshInv
<1>8. RowInv'
  <2> SUFFICES ASSUME NEW a \in rows, NEW q \in start .. end, q \notin reserved,
                      port'[a] = q \/ \E v \in Users : user'[v].app = a
                                         /\ user'[v].at = "saverow" /\ user'[v].port = q
               PROVE  Settled(a, q)'
    BY DEF RowInv
  <2>1. CASE a # c
    <3>1. Settled(a, q)
      BY <1>1, <1>3, <2>1 DEF RowInv
    <3>2. QED
      BY <1>1, <1>3, <2>1, <3>1 DEF Settled
  <2>2. CASE a = c
    <3>1. r = q
      <4>1. CASE \E v \in Users \ {u} : user[v].app = c /\ user[v].at = "saverow" /\ user[v].port = q
        BY <2>2, <4>1 DEF RowInv, Settled
      <4>2. QED
        BY <1>1, <1>3, <2>2, <4>1
    <3>2. Settled(c, q)
      BY <1>4, <2>2, <3>1, PortsAssumption
    <3>3. QED
      BY <1>1, <1>3, <2>2, <3>1, <3>2 DEF Settled
  <2>3. QED
    BY <2>1, <2>2
<1>9. QueryInv'
  BY <1>3, <1>4 DEF QueryInv, Settled
<1>10. UniqueInv'
  BY <1>3, <1>5 DEF UniqueInv
<1>11. NoPortTakenTwice'
  <2> SUFFICES ASSUME NEW v \in Users, NEW q \in start .. end, Holds(v, q)', user'[v].app \in rows
               PROVE  /\ \A b \in rows : port'[b] = q => b = user'[v].app
                      /\ \A w \in Users : Holds(w, q)' /\ user'[w].app \in rows
                            => user'[w].app = user'[v].app
    BY DEF NoPortTakenTwice
  <2>1. /\ Holds(v, q) /\ user[v].app = user'[v].app
        /\ \A w \in Users : Holds(w, q)' => Holds(w, q) /\ user[w].app = user'[w].app
    BY <1>1
  <2>2. /\ \A b \in rows : port[b] = q => b = user[v].app
        /\ \A w \in Users : Holds(w, q) /\ user[w].app \in rows => user[w].app = user[v].app
    BY <2>1 DEF NoPortTakenTwice
  <2>3. r = q /\ c \in rows => c = user[v].app
    <3>1. q # 0
      BY <2>1
    <3>2. QED
      BY <2>2, <3>1
  <2>4. QED
    BY <1>3, <2>1, <2>2, <2>3
<1>12. QED
  BY <1>6, <1>7, <1>8, <1>9, <1>10, <1>11

LEMMA ReleaseKept ==
    ASSUME PortsOK, NEW u \in Users, user[u].at = "saveport" \/ user[u].at = "release",
           NEW at \in {"idle", "release"}, Moves(u, at),
           reserved' = reserved \/ (reserved' = reserved \ {user[u].port} /\ mutex = Nobody
                                   /\ at = "idle"),
           UNCHANGED <<rows, port, mutex, used>>
    PROVE  PortsInv'
<1> USE DEF PortsOK, PortsInv, PortsTypeOK, Idle, Holds, Chosen
<1> DEFINE r == user[u].port
<1>1. /\ user'[u].at = at /\ user'[u].port = r /\ user'[u].app = user[u].app
      /\ \A v \in Users \ {u} : user'[v] = user[v]
  BY MoveEffect DEF Places
<1>2. /\ r \in reserved /\ r # 0
      /\ \A b \in rows : port[b] # r
      /\ \A v \in Users : v # u /\ Holds(v, r) => user[v].app \notin rows /\ ~Chosen(v)
  BY DEF FreshInv
<1>3. MutexInv'
  BY <1>1 DEF MutexInv
<1>4. FreshInv'
  <2> SUFFICES ASSUME NEW v \in Users, Chosen(v)'
               PROVE  /\ user'[v].port \in reserved' /\ user'[v].port # 0
                      /\ \A b \in rows : port[b] # user'[v].port
                      /\ \A w \in Users : w # v /\ Holds(w, user[v].port)'
                            => user'[w].app \notin rows /\ ~Chosen(w)'
    BY DEF FreshInv
  <2>1. /\ user[v].port \in reserved /\ user[v].port # 0
        /\ \A b \in rows : port[b] # user[v].port
        /\ \A w \in Users : w # v /\ Holds(w, user[v].port)
              => user[w].app \notin rows /\ ~Chosen(w)
    BY <1>1 DEF FreshInv
  <2>2. v = u \/ user[v].port # r
    <3> SUFFICES ASSUME v # u, user[v].port = r
                 PROVE  FALSE
      OBVIOUS
    <3>1. Chosen(v) /\ Holds(v, r)
      BY <1>1, <1>2
    <3>2. QED
      BY <1>2, <3>1
  <2>3. user'[v].port = user[v].port /\ user'[v].port \in reserved'
    BY <1>1, <2>1, <2>2
  <2>4. QED
    BY <1>1, <2>1, <2>3
<1>5. RowInv'
  <2> SUFFICES ASSUME NEW a \in rows, NEW p \in start .. end, p \notin reserved',
                      port[a] = p \/ \E v \in Users : user'[v].app = a
                                        /\ user'[v].at = "saverow" /\ user'[v].port = p
               PROVE  Settled(a, p)'
    BY DEF RowInv
  <2>1. p # r
    <3>1. \A v \in Users \ {u} : user[v].at = "saverow" /\ user[v].app = a => user[v].port # r
      BY <1>2
    <3>2. QED
      BY <1>1, <1>2, <3>1
  <2>2. Settled(a, p)
    BY <1>1, <2>1 DEF RowInv
  <2>3. user[u].app # a
    BY <2>2 DEF Settled
  <2>4. QED
    BY <1>1, <2>2, <2>3 DEF Settled
<1>6. QueryInv' /\ UniqueInv'
  BY <1>2 DEF QueryInv, UniqueInv
<1>7. NoPortTakenTwice'
  <2> SUFFICES ASSUME NEW v \in Users, NEW q \in start .. end, Holds(v, q)', user'[v].app \in rows
               PROVE  /\ \A b \in rows : port[b] = q => b = user'[v].app
                      /\ \A w \in Users : Holds(w, q)' /\ user'[w].app \in rows
                            => user'[w].app = user'[v].app
    BY DEF NoPortTakenTwice
  <2>1. /\ Holds(v, q) /\ user[v].app = user'[v].app
        /\ \A w \in Users : Holds(w, q)' => Holds(w, q) /\ user[w].app = user'[w].app
    BY <1>1
  <2>2. QED
    BY <2>1 DEF NoPortTakenTwice
<1>8. QED
  BY <1>3, <1>4, <1>5, <1>6, <1>7

LEMMA RestartKept ==
    ASSUME PortsOK, Restart
    PROVE  PortsInv'
<1> USE DEF PortsOK, PortsInv, PortsTypeOK
<1>1. \A u \in Users : user'[u].at = "idle"
  BY DEF Restart, User
<1>2. MutexInv' /\ FreshInv' /\ QueryInv' /\ NoPortTakenTwice'
  BY <1>1, PortsAssumption
     DEF Restart, MutexInv, FreshInv, QueryInv, NoPortTakenTwice, Chosen, Holds, Idle
<1>3. RowInv'
  BY <1>1 DEF Restart, RowInv, Settled, Idle
<1>4. UniqueInv'
  BY DEF Restart, UniqueInv
<1>5. QED
  BY <1>2, <1>3, <1>4

LEMMA DeleteAppKept ==
    ASSUME PortsOK, NEW a \in Apps, DeleteApp(a)
    PROVE  PortsInv'
<1> USE DEF PortsOK, PortsInv, DeleteApp
<1>1. MutexInv' /\ FreshInv' /\ QueryInv' /\ UniqueInv' /\ NoPortTakenTwice'
  BY DEF MutexInv, FreshInv, QueryInv, UniqueInv, NoPortTakenTwice, Chosen, Holds, Idle
<1>2. RowInv'
  BY DEF RowInv, Settled, Idle
<1>3. QED
  BY <1>1, <1>2

LEMMA PortsNextInv ==
    ASSUME PortsOK, [PortsNext]_portVars
    PROVE  PortsInv'
<1>1. ASSUME NEW u \in Users, QueryFails(u)
      PROVE  PortsInv'
  BY <1>1, LeaveKept, PortsAssumption DEF QueryFails
<1>2. ASSUME NEW u \in Users, SavePort(u)
      PROVE  PortsInv'
  <2>1. CASE CanWrite(user[u].app, user[u].port) /\ port' = Written(user[u].app, user[u].port)
             /\ Moves(u, IF user[u].kind = "deploy" THEN "saverow" ELSE "idle")
    BY <1>2, <2>1, WriteKept DEF SavePort
  <2>2. CASE port' = port /\ Moves(u, IF user[u].kind = "game" THEN "release" ELSE "idle")
    BY <1>2, <2>2, ReleaseKept DEF SavePort
  <2>3. QED
    BY <1>2, <2>1, <2>2 DEF SavePort
<1>3. ASSUME NEW u \in Users, Release(u)
      PROVE  PortsInv'
  BY <1>3, ReleaseKept DEF Release
<1>4. ASSUME NEW u \in Users, SaveRow(u)
      PROVE  PortsInv'
  <2>1. mutex # u
    BY <1>4 DEF SaveRow, PortsOK, PortsInv, MutexInv
  <2>2. CASE CanWrite(user[u].app, user[u].port) /\ port' = Written(user[u].app, user[u].port)
    BY <1>4, <2>2, WriteKept DEF SaveRow
  <2>3. CASE port' = port
    BY <1>4, <2>1, <2>3, LeaveKept DEF SaveRow
  <2>4. QED
    BY <1>4, <2>2, <2>3 DEF SaveRow
<1>5. ASSUME NEW u \in Users, GiveUp(u)
      PROVE  PortsInv'
  <2>1. mutex # u
    BY <1>5 DEF GiveUp, PortsOK, PortsInv, MutexInv
  <2>2. QED
    BY <1>5, <2>1, LeaveKept DEF GiveUp
<1>6. CASE UNCHANGED portVars
  BY <1>6 DEF portVars, PortsOK, PortsInv, MutexInv, FreshInv, RowInv, QueryInv, UniqueInv,
     NoPortTakenTwice, Chosen, Holds, Idle, Settled
<1>7. QED
  BY <1>1, <1>2, <1>3, <1>4, <1>5, <1>6, ReadRowKept, GetUsedPortsKept, ChoosePortKept,
     DeleteAppKept, RestartKept DEF PortsNext, Use

-----------------------------------------------------------------------------
\* PortManager and the UNIQUE column together never let two apps have one port,
\* whatever statements fail, requests write stale rows or restarts empty the
\* reservations.
THEOREM PortsApart == PortsSpec => []NoPortTakenTwice
<1>1. PortsInit => PortsOK
  BY PortsInitTypes, PortsInitInv DEF PortsOK
<1>2. PortsOK /\ [PortsNext]_portVars => PortsOK'
  BY PortsNextTypes, PortsNextInv DEF PortsOK
<1>3. PortsOK => NoPortTakenTwice
  BY DEF PortsOK, PortsInv
<1>4. QED
  BY <1>1, <1>2, <1>3, PTL DEF PortsSpec

\* The columns, the reservations and the goroutines' copies keep their types: a
\* row never has a port outside the range.
THEOREM PortsTyped == PortsSpec => []PortsTypeOK
<1>1. PortsInit => PortsTypeOK
  BY PortsInitTypes
<1>2. PortsTypeOK /\ [PortsNext]_portVars => PortsTypeOK'
  BY PortsNextTypes
<1>3. QED
  BY <1>1, <1>2, PTL DEF PortsSpec

-----------------------------------------------------------------------------
(* The companion's servers and settings *)

Box == [state : {"none", "created", "running", "stopped"}, cpu : CPUs \cup {0}, port : HostPorts \cup {0}]
NoServer == [id |-> "", template |-> "custom"]
Creating == [at : HostPlaces, server : Server \cup {NoServer}, cpu : CPUs \cup {0}, port : HostPorts \cup {0},
             seen : SUBSET Server, save : Nat]

RequestTypes ==
    /\ creating \in [Clients -> Creating]
    /\ \A c \in Clients : creating[c].at \notin {"idle", "config"} =>
          creating[c].server \in Server /\ creating[c].cpu \in CPUs /\ creating[c].port \in HostPorts

HostTypes ==
    /\ file \in [there : BOOLEAN, torn : BOOLEAN, servers : SUBSET Server]
    /\ box \in [Server -> Box]
    /\ RequestTypes
    /\ sessions \subseteq Clients /\ asks \in 0 .. MaxServers /\ beside \in Nat
    /\ saved \in [torn : BOOLEAN, version : Nat, tail : BOOLEAN] /\ saves \in 0 .. MaxSaves
    /\ inForce \in [version : 0 .. saves, tail : BOOLEAN]
    /\ restarts \in Nat /\ unsure \in BOOLEAN /\ crossed \in BOOLEAN

\* Saves that are under way and restarts that sleep are no more than the saves begun.
Saving == {c \in Clients : creating[c].at = "config"}
SavesInv ==
    /\ saved.version <= saves
    /\ \A c \in Saving : creating[c].save <= saves
    /\ restarts + Cardinality(Saving) <= saves

\* A save that was begun alone and is under way has the empty file to itself.
Latest == [version |-> saves, tail |-> FALSE]
SettingsInv ==
    /\ restarts = 0 /\ Saving = {} => unsure \/ inForce = Content
    /\ ~crossed => \/ Saving = {} /\ Content = Latest
                   \/ \E c \in Clients : Saving = {c} /\ creating[c].save = saves /\ saved.torn

\* What a request has made, and what it has read.
HasBox(c) == creating[c].at \in {"start", "append", "truncate", "write"}
HasRead(c) == creating[c].at \in {"truncate", "write"}

\* Whoever is past the creation has a container that nobody else works on.
BoxesInv ==
    /\ \A c \in Clients : creating[c].at = "start" => box[creating[c].server].state = "created"
    /\ \A c \in Clients : creating[c].at \in {"append", "truncate", "write"} => box[creating[c].server].state \in Started
    /\ \A c, d \in Clients : HasBox(c) /\ HasBox(d) /\ creating[c].server = creating[d].server => c = d

\* A list of servers that may be in the registry.
GoodList(servers) ==
    /\ \A r, s \in servers : r.id = s.id => r = s
    /\ \A s \in servers : box[s].state \in Started

ListsInv ==
    /\ GoodList(Listed)
    /\ \A c \in Clients : HasRead(c) =>
          GoodList(creating[c].seen) /\ \A r \in creating[c].seen : r.id # creating[c].server.id

\* The servers that are in the registry or may come into it, and the requests that
\* were let through and have made nothing yet.
Seen == UNION {creating[c].seen : c \in {d \in Clients : HasRead(d)}}
Made == {creating[c].server : c \in {d \in Clients : HasBox(d)}}
Claimed == Listed \cup Seen \cup Made
Waiting == {c \in Clients : creating[c].at = "create"}
Limits == [s \in Server |-> box[s].cpu]
Asked == [c \in Clients |-> creating[c].cpu]
Bounded == SumFunctionOnSet(Limits, Claimed) + SumFunctionOnSet(Asked, Waiting) <= HostCPU + beside

HostInv == HostTypes /\ SavesInv /\ SettingsInv /\ BoxesInv /\ ListsInv /\ Bounded

-----------------------------------------------------------------------------
LEMMA ServersFinite == IsFiniteSet(Server)
<1>1. ASSUME NEW t PROVE IsFiniteSet({s \in Server : s.template = t})
  <2> DEFINE A == {s \in Server : s.template = t}
             f == [s \in A |-> s.id]
  <2>1. f \in Injection(A, ServerIds)
    BY DEF Server, Injection, IsInjective
  <2>2. QED
    BY <2>1, FS_Injection, GameHostAssumption
<1> DEFINE A == {s \in Server : s.template = "vrising"}
           B == {s \in Server : s.template = "custom"}
<1>2. Server = A \cup B
  BY DEF Server, Templates
<1>3. IsFiniteSet(A) /\ IsFiniteSet(B)
  BY <1>1
<1>4. IsFiniteSet(A \cup B)
  <2> HIDE DEF A, B
  <2> QED
    BY <1>3, FS_Union
<1>5. QED
  BY <1>2, <1>4

LEMMA NoServerElsewhere == NoServer \in [id : {""}, template : Templates]
BY DEF NoServer, Templates

LEMMA Constants ==
    /\ CPUs \subseteq Nat \ {0} /\ HostCPU \in Nat /\ HostPorts \subseteq Nat
    /\ OtherCPU \in Nat /\ MaxSaves \in Nat /\ MaxServers \in Nat /\ IsFiniteSet(Clients)
    /\ Legacy \subseteq Server
BY GameHostAssumption, LegacyAssumption, RequestsAssumption

LEMMA GoesEffect ==
    ASSUME creating \in [Clients -> Creating], NEW c \in Clients, NEW at \in HostPlaces, Goes(c, at)
    PROVE  /\ creating' \in [Clients -> Creating]
           /\ creating'[c].at = at /\ creating'[c].server = creating[c].server
           /\ creating'[c].cpu = creating[c].cpu /\ creating'[c].port = creating[c].port
           /\ creating'[c].seen = creating[c].seen /\ creating'[c].save = creating[c].save
           /\ \A d \in Clients \ {c} : creating'[d] = creating[d]
BY DEF Goes, Creating

LEMMA NoCreateType == NoCreate \in Creating /\ NoCreate.at = "idle"
BY DEF NoCreate, Creating, NoServer, HostPlaces

LEMMA AnswersEffect ==
    ASSUME creating \in [Clients -> Creating], NEW c \in Clients, Answers(c)
    PROVE  /\ creating' \in [Clients -> Creating]
           /\ creating'[c].at = "idle"
           /\ \A d \in Clients \ {c} : creating'[d] = creating[d]
BY NoCreateType DEF Answers

LEMMA ListedType == HostTypes => Listed \in SUBSET Server
BY Constants DEF HostTypes, Listed

LEMMA ClaimedType ==
    ASSUME HostTypes
    PROVE  /\ Claimed \in SUBSET Server /\ IsFiniteSet(Claimed)
           /\ Waiting \in SUBSET Clients /\ IsFiniteSet(Waiting)
<1>1. \A c \in Clients : creating[c].seen \in SUBSET Server
  BY DEF HostTypes, RequestTypes, Creating
<1>2. \A c \in Clients : HasBox(c) => creating[c].server \in Server
  BY DEF HostTypes, RequestTypes, HasBox
<1>3. Claimed \in SUBSET Server
  <2>1. Listed \in SUBSET Server
    BY ListedType
  <2>2. Seen \in SUBSET Server
    BY <1>1 DEF Seen
  <2>3. Made \in SUBSET Server
    BY <1>2 DEF Made
  <2>4. QED
    BY <2>1, <2>2, <2>3 DEF Claimed
<1>4. Waiting \in SUBSET Clients
  BY DEF Waiting
<1>5. QED
  BY <1>3, <1>4, ServersFinite, Constants, FS_Subset

LEMMA LimitsAreNat ==
    ASSUME HostTypes
    PROVE  /\ \A s \in Server : Limits[s] = box[s].cpu /\ Limits[s] \in Nat
           /\ \A c \in Clients : Asked[c] = creating[c].cpu /\ Asked[c] \in Nat
<1>1. ASSUME NEW s \in Server PROVE box[s].cpu \in Nat
  <2>1. box[s] \in Box
    BY DEF HostTypes
  <2>2. PICK n \in CPUs \cup {0} : n = box[s].cpu
    BY <2>1 DEF Box
  <2>3. n \in Nat
    BY Constants
  <2>4. QED
    BY <2>2, <2>3
<1>2. ASSUME NEW c \in Clients PROVE creating[c].cpu \in Nat
  <2>1. creating[c] \in Creating
    BY DEF HostTypes, RequestTypes
  <2>2. PICK n \in CPUs \cup {0} : n = creating[c].cpu
    BY <2>1 DEF Creating
  <2>3. n \in Nat
    BY Constants
  <2>4. QED
    BY <2>2, <2>3
<1>3. QED
  BY <1>1, <1>2 DEF Limits, Asked

LEMMA SumsAreNat ==
    ASSUME HostTypes
    PROVE  /\ SumFunctionOnSet(Limits, Claimed) \in Nat
           /\ SumFunctionOnSet(Asked, Waiting) \in Nat
<1>1. \A s \in Claimed : Limits[s] \in Nat
  BY ClaimedType, LimitsAreNat
<1>2. \A c \in Waiting : Asked[c] \in Nat
  BY ClaimedType, LimitsAreNat
<1>3. QED
  BY <1>1, <1>2, ClaimedType, SumIsNat

-----------------------------------------------------------------------------
LEMMA GoesTypes ==
    ASSUME RequestTypes, NEW c \in Clients, NEW at \in HostPlaces, Goes(c, at),
           creating[c].at \notin {"idle", "config"}
    PROVE  RequestTypes'
BY GoesEffect DEF RequestTypes

LEMMA AnswersTypes ==
    ASSUME RequestTypes, NEW c \in Clients, Answers(c)
    PROVE  RequestTypes'
BY AnswersEffect DEF RequestTypes

LEMMA ContentType == HostTypes /\ SavesInv => Content \in [version : 0 .. saves, tail : BOOLEAN]
<1> SUFFICES ASSUME HostTypes, SavesInv PROVE Content \in [version : 0 .. saves, tail : BOOLEAN]
  OBVIOUS
<1>1. PICK v \in Nat : v = saved.version
  BY DEF HostTypes
<1>2. PICK n \in Nat : n = saves
  BY Constants DEF HostTypes
<1>3. v <= n
  BY <1>1, <1>2 DEF SavesInv
<1>4. v \in 0 .. n /\ 0 \in 0 .. n /\ saved.tail \in BOOLEAN
  BY <1>1, <1>2, <1>3 DEF HostTypes
<1>5. QED
  BY <1>1, <1>2, <1>4 DEF Content

LEMMA HostInitTypes == HostInit => HostTypes
<1> SUFFICES ASSUME HostInit PROVE HostTypes
  OBVIOUS
<1>1. PICK cpu \in [Legacy -> CPUs], ports \in [Legacy -> HostPorts] :
        box = [s \in Server |-> IF s \in Legacy THEN [state |-> "running", cpu |-> cpu[s], port |-> ports[s]]
                                ELSE Absent]
  BY DEF HostInit
<1>2. box \in [Server -> Box]
  BY <1>1 DEF Box, Absent
<1>3. RequestTypes
  BY NoCreateType DEF HostInit, RequestTypes
<1>4. file \in [there : BOOLEAN, torn : BOOLEAN, servers : SUBSET Server]
  BY DEF HostInit
<1>5. saved \in [torn : BOOLEAN, version : Nat, tail : BOOLEAN]
  BY DEF HostInit
<1>6. /\ asks \in 0 .. MaxServers /\ beside \in Nat /\ saves \in 0 .. MaxSaves
      /\ inForce \in [version : 0 .. saves, tail : BOOLEAN] /\ restarts \in Nat
      /\ unsure \in BOOLEAN /\ crossed \in BOOLEAN /\ sessions \subseteq Clients
  <2>1. 0 \in 0 .. MaxServers /\ 0 \in 0 .. MaxSaves /\ 0 \in 0 .. 0
    BY Constants
  <2>2. /\ asks = 0 /\ beside = 0 /\ saves = 0 /\ inForce = [version |-> 0, tail |-> FALSE]
        /\ restarts = 0 /\ unsure = FALSE /\ crossed = FALSE /\ sessions = {}
    BY DEF HostInit
  <2>3. QED
    BY <2>1, <2>2
<1>7. QED
  BY <1>2, <1>3, <1>4, <1>5, <1>6 DEF HostTypes

\* What a request for a server leaves as it was.
LEMMA ConfigStillTypes ==
    ASSUME HostTypes, ConfigStill
    PROVE  /\ saved' \in [torn : BOOLEAN, version : Nat, tail : BOOLEAN] /\ saves' \in 0 .. MaxSaves
           /\ inForce' \in [version : 0 .. saves', tail : BOOLEAN]
           /\ restarts' \in Nat /\ unsure' \in BOOLEAN /\ crossed' \in BOOLEAN
BY DEF HostTypes, ConfigStill

LEMMA RegistersTypes ==
    ASSUME HostTypes, NEW c \in Clients, Registers(c)
    PROVE  HostTypes'
<1> USE DEF HostTypes
<1>1. ASSUME NEW s \in Server, NEW n \in CPUs, NEW p \in HostPorts, CreateManagedServer(c, s, n, p)
      PROVE  HostTypes'
  <2> DEFINE r == [at |-> "capacity", server |-> s, cpu |-> n, port |-> p, seen |-> {}, save |-> 0]
  <2>1. r \in Creating
    BY DEF Creating, HostPlaces
  <2>2. r.at = "capacity" /\ r.server = s /\ r.cpu = n /\ r.port = p
    OBVIOUS
  <2>3. creating' = [creating EXCEPT ![c] = r]
    BY <1>1 DEF CreateManagedServer
  <2> HIDE DEF r
  <2>4. RequestTypes'
    BY <2>1, <2>2, <2>3 DEF RequestTypes
  <2>5. asks' \in 0 .. MaxServers
    BY <1>1, Constants DEF CreateManagedServer
  <2>6. QED
    BY <1>1, <2>4, <2>5, ConfigStillTypes DEF CreateManagedServer
<1>2. CASE ValidateInfraCapacity(c)
  <2>1. RequestTypes'
    BY <1>2, GoesTypes DEF ValidateInfraCapacity, HostPlaces
  <2>2. beside' \in Nat
    <3>1. creating[c].cpu \in Nat
      BY LimitsAreNat
    <3>2. QED
      BY <1>2, <3>1 DEF ValidateInfraCapacity
  <2>3. QED
    BY <1>2, <2>1, <2>2, ConfigStillTypes DEF ValidateInfraCapacity
<1>3. CASE CreateBoxOf(c)
  <2>1. RequestTypes'
    BY <1>3, GoesTypes DEF CreateBoxOf, HostPlaces
  <2> DEFINE b == [state |-> "created", cpu |-> creating[c].cpu, port |-> creating[c].port]
  <2>2. b \in Box
    BY <1>3 DEF RequestTypes, CreateBoxOf, Box
  <2>3. box' = [box EXCEPT ![creating[c].server] = b]
    BY <1>3 DEF CreateBoxOf
  <2> HIDE DEF b
  <2>4. box' \in [Server -> Box]
    BY <2>2, <2>3
  <2>5. QED
    BY <1>3, <2>1, <2>4, ConfigStillTypes DEF CreateBoxOf
<1>4. CASE CreateBoxFails(c)
  BY <1>4, AnswersTypes, ConfigStillTypes DEF CreateBoxFails
<1>5. CASE StartBoxOf(c)
  <2>1. RequestTypes'
    BY <1>5, GoesTypes DEF StartBoxOf, HostPlaces
  <2>2. box' \in [Server -> Box]
    <3>1. creating[c].server \in Server
      BY <1>5 DEF RequestTypes, StartBoxOf
    <3>2. PICK b \in Box : b = box[creating[c].server]
      BY <3>1
    <3>3. PICK e : e = [b EXCEPT !.state = "running"]
      OBVIOUS
    <3>4. e \in Box
      BY <3>3 DEF Box
    <3>5. box' = [box EXCEPT ![creating[c].server] = e]
      BY <1>5, <3>1, <3>2, <3>3 DEF StartBoxOf
    <3>6. QED
      BY <3>4, <3>5
  <2>3. QED
    BY <1>5, <2>1, <2>2, ConfigStillTypes DEF StartBoxOf
<1>6. CASE StartBoxFails(c)
  BY <1>6, AnswersTypes, ConfigStillTypes DEF StartBoxFails
<1>7. CASE AppendServerRecord(c)
  <2>1. RequestTypes'
    <3>1. CASE Answers(c)
      BY <3>1, AnswersTypes
    <3>2. CASE creating' = [creating EXCEPT ![c].at = "truncate", ![c].seen = Listed]
      <4>1. PICK r \in Creating : r = creating[c]
        BY DEF RequestTypes
      <4>2. PICK q : q = [r EXCEPT !.at = "truncate", !.seen = Listed]
        OBVIOUS
      <4>3. q \in Creating /\ q.at = "truncate" /\ q.server = r.server /\ q.cpu = r.cpu /\ q.port = r.port
        BY <4>2, ListedType DEF Creating, HostPlaces
      <4>4. creating' = [creating EXCEPT ![c] = q]
        BY <3>2, <4>1, <4>2 DEF RequestTypes
      <4>5. creating[c].at = "append"
        BY <1>7 DEF AppendServerRecord
      <4>6. QED
        BY <4>1, <4>3, <4>4, <4>5 DEF RequestTypes
    <3>3. QED
      BY <1>7, <3>1, <3>2 DEF AppendServerRecord
  <2>2. QED
    BY <1>7, <2>1, ConfigStillTypes DEF AppendServerRecord
<1>8. CASE TruncateRegistry(c)
  <2>1. RequestTypes'
    BY <1>8, GoesTypes DEF TruncateRegistry, HostPlaces
  <2>2. file' \in [there : BOOLEAN, torn : BOOLEAN, servers : SUBSET Server]
    BY <1>8 DEF TruncateRegistry
  <2>3. QED
    BY <1>8, <2>1, <2>2, ConfigStillTypes DEF TruncateRegistry
<1>9. CASE WriteRegistry(c)
  <2>1. RequestTypes'
    BY <1>9, AnswersTypes DEF WriteRegistry
  <2>2. creating[c].seen \cup {creating[c].server} \in SUBSET Server
    BY <1>9 DEF WriteRegistry, RequestTypes, Creating
  <2>3. file' \in [there : BOOLEAN, torn : BOOLEAN, servers : SUBSET Server]
    BY <1>9, <2>2 DEF WriteRegistry
  <2>4. QED
    BY <1>9, <2>1, <2>3, ConfigStillTypes DEF WriteRegistry
<1>10. CASE RefuseCapacity(c)
  BY <1>10, AnswersTypes, ConfigStillTypes DEF RefuseCapacity
<1>11. ASSUME NEW s \in Server, RestartListed(c, s) PROVE HostTypes'
  <2>1. PICK state \in {"stopped", "running"} : box' = [box EXCEPT ![s].state = state]
    BY <1>11 DEF RestartListed
  <2>2. PICK b \in Box : b = box[s]
    OBVIOUS
  <2>3. PICK e : e = [b EXCEPT !.state = state]
    OBVIOUS
  <2>4. e \in Box
    BY <2>3 DEF Box
  <2>5. box' = [box EXCEPT ![s] = e]
    BY <2>1, <2>2, <2>3
  <2>6. box' \in [Server -> Box]
    BY <2>4, <2>5
  <2>7. RequestTypes'
    BY <1>11 DEF RestartListed, RequestTypes
  <2>8. QED
    BY <1>11, <2>6, <2>7, ConfigStillTypes DEF RestartListed
<1>12. QED
  BY <1>1, <1>2, <1>3, <1>4, <1>5, <1>6, <1>7, <1>8, <1>9, <1>10, <1>11 DEF Registers

\* Requests that save no settings.
LEMMA SavingKept ==
    ASSUME HostTypes, NEW c \in Clients, Registers(c)
    PROVE  /\ Saving' = Saving /\ \A d \in Saving : creating'[d] = creating[d]
           /\ ConfigStill
<1> USE DEF HostTypes, RequestTypes
<1>1. ConfigStill /\ creating[c].at # "config"
  BY DEF Registers, CreateManagedServer, ValidateInfraCapacity, RefuseCapacity, RestartListed, CreateBoxOf, CreateBoxFails, StartBoxOf,
     StartBoxFails, AppendServerRecord, TruncateRegistry, WriteRegistry
<1>2. creating'[c].at # "config" /\ \A d \in Clients \ {c} : creating'[d] = creating[d]
  <2>1. CASE Answers(c)
    BY <2>1, AnswersEffect
  <2>2. ASSUME NEW at \in HostPlaces \ {"config"}, Goes(c, at)
        PROVE  creating'[c].at # "config" /\ \A d \in Clients \ {c} : creating'[d] = creating[d]
    BY <2>2, GoesEffect
  <2>3. ASSUME NEW s, NEW n, NEW p, CreateManagedServer(c, s, n, p)
        PROVE  creating'[c].at # "config" /\ \A d \in Clients \ {c} : creating'[d] = creating[d]
    BY <2>3 DEF CreateManagedServer
  <2>4. CASE creating' = [creating EXCEPT ![c].at = "truncate", ![c].seen = Listed]
    <3>1. PICK r \in Creating : r = creating[c]
      OBVIOUS
    <3>2. PICK q : q = [r EXCEPT !.at = "truncate", !.seen = Listed]
      OBVIOUS
    <3>3. q.at = "truncate"
      BY <3>2 DEF Creating
    <3>4. creating' = [creating EXCEPT ![c] = q]
      BY <2>4, <3>1, <3>2
    <3>5. QED
      BY <3>3, <3>4
  <2>5. CASE UNCHANGED creating
    BY <1>1, <2>5
  <2>6. QED
    BY <2>1, <2>2, <2>3, <2>4, <2>5 DEF Registers, ValidateInfraCapacity, RefuseCapacity, RestartListed, CreateBoxOf, CreateBoxFails, StartBoxOf,
       StartBoxFails, AppendServerRecord, TruncateRegistry, WriteRegistry, HostPlaces
<1>3. QED
  BY <1>1, <1>2 DEF Saving

LEMMA SavingCounted ==
    /\ IsFiniteSet(Saving) /\ Cardinality(Saving) \in Nat
    /\ ~ \E c \in Saving : TRUE
          => Cardinality(Saving) = 0
<1>1. Saving \in SUBSET Clients
  BY DEF Saving
<1>2. IsFiniteSet(Saving)
  BY <1>1, Constants, FS_Subset
<1>3. QED
  BY <1>2, FS_CardinalityType, FS_EmptySet

SettingsOK == HostTypes /\ SavesInv /\ SettingsInv

LEMMA BeginSaveKept ==
    ASSUME SettingsOK, NEW c \in Clients, BeginSave(c)
    PROVE  SettingsOK'
<1> USE DEF SettingsOK, HostTypes, RequestTypes
<1>1. PICK r \in Creating : r = creating[c]
  OBVIOUS
<1>2. PICK n \in Nat : n = saves /\ n + 1 \in Nat /\ n + 1 \in 0 .. MaxSaves
  <2>1. PICK n \in 0 .. MaxSaves : n = saves
    OBVIOUS
  <2>2. n + 1 \in 0 .. MaxSaves /\ n \in Nat
    BY <2>1, Constants DEF BeginSave
  <2>3. QED
    BY <2>1, <2>2
<1>3. PICK q : q = [r EXCEPT !.at = "config", !.save = n + 1]
  OBVIOUS
<1>4. q \in Creating /\ q.at = "config" /\ q.save = n + 1
  BY <1>2, <1>3 DEF Creating, HostPlaces
<1>5. creating' = [creating EXCEPT ![c] = q]
  BY <1>1, <1>2, <1>3 DEF BeginSave
<1>6. creating'[c] = q /\ \A d \in Clients \ {c} : creating'[d] = creating[d]
  BY <1>5
<1>7. RequestTypes'
  BY <1>4, <1>5
<1>8. /\ saved' \in [torn : BOOLEAN, version : Nat, tail : BOOLEAN]
      /\ saved'.version = saved.version /\ saved'.torn
  BY DEF BeginSave
<1>9. /\ saves' = n + 1 /\ UNCHANGED <<file, box, sessions, inForce, restarts, unsure, asks, beside>>
      /\ crossed' = (\E d \in Clients : creating[d].at = "config")
  BY <1>2 DEF BeginSave
<1>10. inForce \in [version : 0 .. n + 1, tail : BOOLEAN]
  <2>1. PICK v \in 0 .. n : v = inForce.version
    BY <1>2
  <2>2. v \in 0 .. n + 1
    BY <1>2
  <2>3. QED
    BY <1>2, <2>1, <2>2
<1>11. HostTypes'
  BY <1>2, <1>7, <1>8, <1>9, <1>10
<1>12. c \notin Saving /\ Saving' = Saving \cup {c}
  BY <1>4, <1>6 DEF Saving, BeginSave
<1>13. SavesInv'
  <2>1. Cardinality(Saving') = Cardinality(Saving) + 1
    BY <1>12, SavingCounted, FS_AddElement
  <2>2. restarts + Cardinality(Saving) <= n /\ restarts \in Nat /\ Cardinality(Saving) \in Nat
    BY <1>2, SavingCounted DEF SavesInv
  <2>3. restarts' + Cardinality(Saving') <= saves'
    BY <1>2, <1>9, <2>1, <2>2
  <2>4. saved'.version <= saves'
    <3>1. PICK v \in Nat : v = saved.version
      OBVIOUS
    <3>2. v <= n
      BY <1>2, <3>1 DEF SavesInv
    <3>3. QED
      BY <1>2, <1>8, <1>9, <3>1, <3>2
  <2>5. ASSUME NEW d \in Saving' PROVE creating'[d].save <= saves'
    <3>1. CASE d = c
      BY <1>2, <1>4, <1>6, <1>9, <3>1
    <3>2. CASE d # c
      <4>1. d \in Saving /\ creating'[d] = creating[d]
        BY <1>6, <1>12, <3>2 DEF Saving
      <4>2. PICK s \in Nat : s = creating[d].save
        BY <4>1 DEF Saving, Creating
      <4>3. s <= n
        BY <1>2, <4>1, <4>2 DEF SavesInv
      <4>4. QED
        BY <1>2, <1>9, <4>1, <4>2, <4>3
    <3>3. QED
      BY <3>1, <3>2
  <2>6. QED
    BY <2>3, <2>4, <2>5 DEF SavesInv
<1>14. SettingsInv'
  <2>1. ~crossed' => Saving' = {c}
    BY <1>9, <1>12 DEF Saving
  <2>2. creating'[c].save = saves' /\ saved'.torn /\ Saving' # {}
    BY <1>4, <1>6, <1>8, <1>9, <1>12
  <2>3. QED
    BY <2>1, <2>2 DEF SettingsInv
<1>15. QED
  BY <1>11, <1>13, <1>14

LEMMA EndSaveKept ==
    ASSUME SettingsOK, NEW c \in Clients, EndSave(c)
    PROVE  SettingsOK'
<1> USE DEF SettingsOK, HostTypes, RequestTypes
<1>1. /\ creating' \in [Clients -> Creating] /\ creating'[c].at = "idle"
      /\ \A d \in Clients \ {c} : creating'[d] = creating[d]
  BY AnswersEffect DEF EndSave
<1>2. RequestTypes'
  BY <1>1
<1>3. PICK v \in Nat : v = creating[c].save
  BY DEF Creating
<1>4. PICK tail \in BOOLEAN :
          /\ tail => ~saved.torn
          /\ saved' = [torn |-> FALSE, version |-> v, tail |-> tail] /\ restarts' = restarts + 1
          /\ UNCHANGED <<file, box, sessions, saves, inForce, unsure, crossed, asks, beside>>
  BY <1>3 DEF EndSave, Saves
<1>5. c \in Saving /\ Saving' = Saving \ {c} /\ \A d \in Saving' : creating'[d] = creating[d]
  BY <1>1 DEF Saving, EndSave
<1>6. HostTypes'
  BY <1>2, <1>4
<1>7. Cardinality(Saving') = Cardinality(Saving) - 1
  BY <1>5, SavingCounted, FS_RemoveElement
<1>8. SavesInv'
  <2>1. v <= saves
    BY <1>3, <1>5 DEF SavesInv
  <2>2. saved'.version <= saves'
    BY <1>4, <2>1
  <2>3. restarts' + Cardinality(Saving') <= saves'
    <3>1. PICK n \in Nat : n = saves
      OBVIOUS
    <3>2. restarts + Cardinality(Saving) <= n /\ restarts \in Nat /\ Cardinality(Saving) \in Nat
      BY <3>1, SavingCounted DEF SavesInv
    <3>3. QED
      BY <1>4, <1>7, <3>1, <3>2
  <2>4. \A d \in Saving' : creating'[d].save <= saves'
    BY <1>4, <1>5 DEF SavesInv
  <2>5. QED
    BY <2>2, <2>3, <2>4 DEF SavesInv
<1>9. SettingsInv'
  <2>1. restarts' # 0
    BY <1>4
  <2>2. ASSUME ~crossed PROVE Saving' = {} /\ Content' = Latest'
    <3>1. PICK d \in Clients : Saving = {d} /\ creating[d].save = saves /\ saved.torn
      BY <1>5, <2>2 DEF SettingsInv
    <3>2. d = c /\ v = saves /\ ~tail
      BY <1>3, <1>4, <1>5, <3>1
    <3>3. Saving' = {}
      BY <1>5, <3>1, <3>2
    <3>4. QED
      BY <1>4, <3>2, <3>3 DEF Content, Latest
  <2>3. QED
    BY <1>4, <2>1, <2>2 DEF SettingsInv
<1>10. QED
  BY <1>6, <1>8, <1>9

LEMMA RestartLaterKept ==
    ASSUME SettingsOK, RestartLater
    PROVE  SettingsOK'
<1> USE DEF SettingsOK, HostTypes
<1>1. /\ UNCHANGED <<file, box, creating, sessions, saved, saves, crossed, asks, beside>>
      /\ restarts > 0 /\ restarts' = restarts - 1
      /\ (inForce' = Content /\ unsure' = FALSE) \/ (inForce' = inForce /\ unsure' = TRUE)
  BY DEF RestartLater, Restarts
<1>2. restarts' \in Nat /\ restarts' <= restarts
  BY <1>1
<1>3. HostTypes'
  <2>1. inForce' \in [version : 0 .. saves', tail : BOOLEAN] /\ unsure' \in BOOLEAN
    BY <1>1, ContentType
  <2>2. RequestTypes'
    BY <1>1 DEF RequestTypes
  <2>3. QED
    BY <1>1, <1>2, <2>1, <2>2
<1>4. Saving' = Saving
  BY <1>1 DEF Saving
<1>5. SavesInv'
  <2>1. restarts' + Cardinality(Saving) <= saves
    <3>1. PICK n \in Nat : n = saves
      OBVIOUS
    <3>2. restarts + Cardinality(Saving) <= n /\ restarts \in Nat /\ Cardinality(Saving) \in Nat
      BY <3>1, SavingCounted DEF SavesInv
    <3>3. QED
      BY <1>2, <3>1, <3>2
  <2>2. QED
    BY <1>1, <1>4, <2>1 DEF SavesInv
<1>6. SettingsInv'
  BY <1>1, <1>4 DEF SettingsInv, Content, Latest
<1>7. QED
  BY <1>3, <1>5, <1>6

LEMMA ApiRestartKept ==
    ASSUME SettingsOK, NEW c \in Clients, ApiRestart(c)
    PROVE  SettingsOK'
<1> USE DEF SettingsOK, HostTypes
<1>1. /\ UNCHANGED <<file, box, creating, sessions, saved, saves, restarts, crossed, asks, beside>>
      /\ (inForce' = Content /\ unsure' = FALSE) \/ (inForce' = inForce /\ unsure' = TRUE)
  BY DEF ApiRestart, Restarts
<1>2. HostTypes'
  BY <1>1, ContentType DEF RequestTypes
<1>3. Saving' = Saving
  BY <1>1 DEF Saving
<1>4. SavesInv'
  BY <1>1, <1>3 DEF SavesInv
<1>5. SettingsInv'
  BY <1>1, <1>3 DEF SettingsInv, Content, Latest
<1>6. QED
  BY <1>2, <1>4, <1>5

LEMMA CompanionDiesKept ==
    ASSUME SettingsOK, CompanionDies
    PROVE  SettingsOK'
<1> USE DEF SettingsOK, HostTypes
<1>1. /\ UNCHANGED <<file, box, saved, saves, inForce, asks, beside>>
      /\ creating' = [c \in Clients |-> NoCreate] /\ sessions' = {} /\ restarts' = 0
      /\ unsure' = (unsure \/ restarts > 0 \/ \E c \in Clients : creating[c].at = "config")
      /\ crossed' = (crossed \/ \E c \in Clients : creating[c].at = "config")
  BY DEF CompanionDies
<1>2. RequestTypes' /\ \A c \in Clients : creating'[c].at = "idle"
  BY <1>1, NoCreateType DEF RequestTypes
<1>3. HostTypes'
  BY <1>1, <1>2
<1>4. Saving' = {}
  BY <1>2 DEF Saving
<1>5. Cardinality(Saving') = 0
  BY <1>4, FS_EmptySet
<1>6. SavesInv'
  BY <1>1, <1>4, <1>5 DEF SavesInv
<1>7. ~unsure' => restarts = 0 /\ Saving = {} /\ ~unsure
  <2> SUFFICES ASSUME ~unsure' PROVE restarts = 0 /\ Saving = {} /\ ~unsure
    OBVIOUS
  <2>1. ~unsure /\ ~(restarts > 0) /\ \A c \in Clients : creating[c].at # "config"
    BY <1>1
  <2>2. restarts = 0
    BY <2>1
  <2>3. QED
    BY <2>1, <2>2 DEF Saving
<1>8. SettingsInv'
  <2>1. Content' = Content /\ Latest' = Latest
    BY <1>1 DEF Content, Latest
  <2>2. ~unsure' => inForce' = Content'
    BY <1>1, <1>7, <2>1 DEF SettingsInv
  <2>3. ~crossed' => ~crossed /\ Saving = {}
    BY <1>1 DEF Saving
  <2>4. ~crossed' => Content' = Latest'
    BY <2>1, <2>3 DEF SettingsInv
  <2>5. QED
    BY <1>4, <2>2, <2>4 DEF SettingsInv
<1>9. QED
  BY <1>3, <1>6, <1>8

LEMMA SettingsNext ==
    ASSUME SettingsOK, [HostNext]_hostVars
    PROVE  SettingsOK'
<1>1. ASSUME NEW c \in Clients, Login(c) \/ EndSession(c)
      PROVE  SettingsOK'
  <2>1. UNCHANGED <<file, box, creating, asks, beside>> /\ ConfigStill /\ sessions' \subseteq Clients
    BY <1>1 DEF Login, EndSession, SettingsOK, HostTypes
  <2>2. QED
    BY <2>1 DEF ConfigStill, SettingsOK, HostTypes, RequestTypes, SavesInv, SettingsInv, Content, Latest, Saving
<1>2. ASSUME NEW c \in Clients, Registers(c)
      PROVE  SettingsOK'
  <2>1. HostTypes'
    BY <1>2, RegistersTypes DEF SettingsOK
  <2>2. Saving' = Saving /\ (\A d \in Saving : creating'[d] = creating[d]) /\ ConfigStill
    BY <1>2, SavingKept DEF SettingsOK
  <2>3. SavesInv'
    BY <2>2 DEF SettingsOK, SavesInv, ConfigStill
  <2>4. SettingsInv'
    BY <2>2 DEF SettingsOK, SettingsInv, ConfigStill, Content, Latest, Saving
  <2>5. QED
    BY <2>1, <2>3, <2>4 DEF SettingsOK
<1>3. CASE UNCHANGED hostVars
  BY <1>3 DEF hostVars, SettingsOK, HostTypes, RequestTypes, SavesInv, SettingsInv, Content, Latest, Saving
<1>4. QED
  BY <1>1, <1>2, <1>3, BeginSaveKept, EndSaveKept, RestartLaterKept, ApiRestartKept, CompanionDiesKept
     DEF HostNext, Configures

LEMMA SettingsTyped ==
    ASSUME SettingsOK
    PROVE  HostTypeOK
<1> USE DEF SettingsOK, HostTypes, RequestTypes
<1>1. \A s \in Server : box[s] \in [state : {"none", "created", "running", "stopped"}, cpu : CPUs \cup {0}, port : HostPorts \cup {0}]
  BY DEF Box
<1>2. \A c \in Clients : creating[c].at \in HostPlaces /\ creating[c].seen \subseteq Server
  BY DEF Creating
<1>3. file.servers \subseteq Server
  OBVIOUS
<1>4. PICK n \in 0 .. MaxSaves : n = saves
  OBVIOUS
<1>5. PICK v \in Nat : v = saved.version
  OBVIOUS
<1>6. v \in 0 .. n
  BY <1>4, <1>5, Constants DEF SavesInv
<1>7. restarts \in 0 .. MaxSaves
  <2>1. restarts + Cardinality(Saving) <= n /\ restarts \in Nat /\ Cardinality(Saving) \in Nat
    BY <1>4, SavingCounted DEF SavesInv
  <2>2. QED
    BY <1>4, <2>1, Constants
<1>8. QED
  BY <1>1, <1>2, <1>3, <1>4, <1>5, <1>6, <1>7 DEF HostTypeOK

LEMMA SettingsInit == HostInit => SettingsOK
<1> SUFFICES ASSUME HostInit PROVE SettingsOK
  OBVIOUS
<1>1. Saving = {}
  BY NoCreateType DEF HostInit, Saving
<1>2. Cardinality(Saving) = 0
  BY <1>1, FS_EmptySet
<1>3. QED
  BY <1>1, <1>2, HostInitTypes DEF HostInit, SettingsOK, SavesInv, SettingsInv, Content, Latest

-----------------------------------------------------------------------------
\* What is known of the sums in a state is known of them in the next.
FiniteSorts ==
    /\ Claimed \in SUBSET Server /\ IsFiniteSet(Claimed)
    /\ Waiting \in SUBSET Clients /\ IsFiniteSet(Waiting)
    /\ \A s \in Server : Limits[s] = box[s].cpu /\ Limits[s] \in Nat
    /\ \A c \in Clients : Asked[c] = creating[c].cpu /\ Asked[c] \in Nat

LEMMA SortsNow == HostTypes => FiniteSorts
BY ClaimedType, LimitsAreNat DEF FiniteSorts

LEMMA SortsNext == HostTypes' => FiniteSorts'
BY SortsNow, PTL

LEMMA BoundShrinks ==
    ASSUME HostTypes, HostTypes', Bounded, beside' = beside,
           Claimed' \subseteq Claimed, \A s \in Claimed' : box'[s].cpu = box[s].cpu,
           Waiting' \subseteq Waiting, \A c \in Waiting' : creating'[c].cpu = creating[c].cpu
    PROVE  Bounded'
<1>1. FiniteSorts /\ FiniteSorts'
  BY SortsNow, SortsNext
<1>2. \A s \in Claimed' : Limits'[s] = Limits[s]
  BY <1>1 DEF FiniteSorts
<1>3. SumFunctionOnSet(Limits', Claimed') = SumFunctionOnSet(Limits, Claimed')
  BY <1>1, <1>2, SumIsSame DEF FiniteSorts
<1>4. SumFunctionOnSet(Limits, Claimed') <= SumFunctionOnSet(Limits, Claimed)
  BY <1>1, SumOfFewer DEF FiniteSorts
<1>5. \A c \in Waiting' : Asked'[c] = Asked[c]
  BY <1>1 DEF FiniteSorts
<1>6. SumFunctionOnSet(Asked', Waiting') = SumFunctionOnSet(Asked, Waiting')
  BY <1>1, <1>5, SumIsSame DEF FiniteSorts
<1>7. SumFunctionOnSet(Asked, Waiting') <= SumFunctionOnSet(Asked, Waiting)
  BY <1>1, SumOfFewer DEF FiniteSorts
<1>8. /\ SumFunctionOnSet(Limits, Claimed') \in Nat /\ SumFunctionOnSet(Limits, Claimed) \in Nat
      /\ SumFunctionOnSet(Asked, Waiting') \in Nat /\ SumFunctionOnSet(Asked, Waiting) \in Nat
  <2>1. /\ \A s \in Claimed : Limits[s] \in Nat
        /\ \A c \in Waiting : Asked[c] \in Nat
    BY <1>1 DEF FiniteSorts
  <2>2. IsFiniteSet(Claimed') /\ IsFiniteSet(Waiting') /\ IsFiniteSet(Claimed) /\ IsFiniteSet(Waiting)
    BY <1>1 DEF FiniteSorts
  <2>3. QED
    BY <2>1, <2>2, SumIsNat
<1>9. beside \in Nat /\ HostCPU \in Nat
  BY Constants DEF HostTypes
<1>10. SumFunctionOnSet(Limits', Claimed') + SumFunctionOnSet(Asked', Waiting') <= HostCPU + beside'
  BY <1>3, <1>4, <1>6, <1>7, <1>8, <1>9 DEF Bounded
<1>11. QED
  BY <1>10 DEF Bounded

RegistryInv == BoxesInv /\ ListsInv /\ Bounded

\* Requests that end, and those that are not let through yet.
LEMMA RequestsLeave ==
    ASSUME HostTypes, HostTypes', RegistryInv, UNCHANGED <<file, box, beside>>,
           \A c \in Clients : creating'[c] = creating[c] \/ ~UnderWay(c)'
    PROVE  RegistryInv'
<1> USE DEF RegistryInv
<1>1. \A c \in Clients : HasBox(c)' => HasBox(c) /\ creating'[c] = creating[c]
  BY DEF HasBox, UnderWay
<1>2. \A c \in Clients : HasRead(c)' => HasRead(c) /\ creating'[c] = creating[c]
  BY DEF HasRead, UnderWay
<1>3. Listed' = Listed
  BY DEF Listed
<1>4. BoxesInv'
  BY <1>1 DEF BoxesInv, HasBox
<1>5. ListsInv'
  BY <1>2, <1>3 DEF ListsInv, GoodList
<1>6. Claimed' \subseteq Claimed
  BY <1>1, <1>2, <1>3 DEF Claimed, Seen, Made
<1>7. \A c \in Waiting' : c \in Waiting /\ creating'[c] = creating[c]
  BY DEF Waiting, UnderWay
<1>8. Bounded'
  BY <1>6, <1>7, BoundShrinks
<1>9. QED
  BY <1>4, <1>5, <1>8

LEMMA LetThrough ==
    ASSUME HostTypes, HostTypes', RegistryInv, NEW c \in Clients, ValidateInfraCapacity(c),
           NEW seen \in SUBSET Counted, NEW missed \in {0, OtherCPU},
           creating[c].cpu <= FreeCPU(seen, missed), Goes(c, "create"),
           beside' = IF seen # Counted \/ missed # 0 \/ \E d \in Clients : UnderWay(d)
                     THEN beside + creating[c].cpu ELSE 0
    PROVE  RegistryInv'
<1> USE DEF RegistryInv
<1>1. /\ UNCHANGED <<file, box>> /\ creating[c].at = "capacity"
      /\ creating'[c].at = "create" /\ creating'[c].cpu = creating[c].cpu
      /\ \A d \in Clients \ {c} : creating'[d] = creating[d]
  BY GoesEffect DEF ValidateInfraCapacity, HostTypes, RequestTypes, HostPlaces
<1>2. \A d \in Clients : /\ HasBox(d)' <=> HasBox(d)
                         /\ HasRead(d)' <=> HasRead(d)
                         /\ HasBox(d) \/ HasRead(d) => creating'[d] = creating[d]
  BY <1>1 DEF HasBox, HasRead
<1>3. Listed' = Listed
  BY <1>1 DEF Listed
<1>4. BoxesInv'
  BY <1>1, <1>2 DEF BoxesInv, HasBox
<1>5. ListsInv'
  BY <1>1, <1>2, <1>3 DEF ListsInv, GoodList
<1>6. Claimed' = Claimed
  BY <1>2, <1>3 DEF Claimed, Seen, Made
<1>7. c \notin Waiting /\ Waiting' = Waiting \cup {c}
  BY <1>1 DEF Waiting
<1>8. FiniteSorts /\ FiniteSorts'
  BY SortsNow, SortsNext
<1>9. SumFunctionOnSet(Limits', Claimed') = SumFunctionOnSet(Limits, Claimed)
  <2>1. \A s \in Claimed : Limits'[s] = Limits[s]
    BY <1>1, <1>8 DEF FiniteSorts
  <2>2. QED
    BY <1>6, <1>8, <2>1, SumIsSame DEF FiniteSorts
<1>10. SumFunctionOnSet(Asked', Waiting') = creating[c].cpu + SumFunctionOnSet(Asked, Waiting)
  <2>1. /\ IsFiniteSet(Waiting) /\ Asked'[c] = creating[c].cpu /\ Asked'[c] \in Nat
        /\ \A d \in Waiting : Asked'[d] = Asked[d] /\ Asked'[d] \in Nat
    BY <1>1, <1>7, <1>8 DEF FiniteSorts
  <2>2. SumFunctionOnSet(Asked', Waiting') = Asked'[c] + SumFunctionOnSet(Asked', Waiting)
    BY <1>7, <2>1, SumWith
  <2>3. SumFunctionOnSet(Asked', Waiting) = SumFunctionOnSet(Asked, Waiting)
    BY <2>1, SumIsSame
  <2>4. QED
    BY <2>1, <2>2, <2>3
<1>11. PICK n \in CPUs : n = creating[c].cpu
  BY <1>1 DEF HostTypes, RequestTypes
<1>12. n \in Nat \ {0} /\ HostCPU \in Nat /\ beside \in Nat
  BY Constants DEF HostTypes
<1>13. SumFunctionOnSet(Limits, Claimed) \in Nat /\ SumFunctionOnSet(Asked, Waiting) \in Nat
  BY SumsAreNat
<1>14. Bounded'
  <2>1. CASE seen # Counted \/ missed # 0 \/ \E d \in Clients : UnderWay(d)
    <3>1. beside' = beside + n
      BY <1>11, <2>1
    <3>2. SumFunctionOnSet(Limits, Claimed) + SumFunctionOnSet(Asked, Waiting) <= HostCPU + beside
      BY DEF Bounded
    <3>3. SumFunctionOnSet(Limits', Claimed') + SumFunctionOnSet(Asked', Waiting') <= HostCPU + beside'
      BY <1>9, <1>10, <1>11, <1>12, <1>13, <3>1, <3>2
    <3>4. QED
      BY <3>3 DEF Bounded
  <2>2. CASE ~(seen # Counted \/ missed # 0 \/ \E d \in Clients : UnderWay(d))
    <3>1. Claimed = Listed /\ Waiting = {}
      BY <2>2 DEF Claimed, Seen, Made, Waiting, UnderWay, HasBox, HasRead
    <3>2. Counted = Listed
      BY DEF Counted, ListsInv, GoodList, Started
    <3>3. Allocated = SumFunctionOnSet(Limits, Claimed)
      BY <3>1, <3>2 DEF Allocated, Limits
    <3>4. SumFunctionOnSet(Asked, Waiting) = 0
      BY <3>1, SumOfNone
    <3>5. n <= FreeCPU(Counted, 0)
      BY <1>11, <2>2
    <3>6. n + Allocated <= HostCPU
      BY <1>12, <1>13, <3>3, <3>5 DEF FreeCPU, Allocated
    <3>7. beside' = 0
      BY <2>2
    <3>8. SumFunctionOnSet(Limits', Claimed') + SumFunctionOnSet(Asked', Waiting') <= HostCPU + beside'
      BY <1>9, <1>10, <1>11, <1>12, <1>13, <3>3, <3>4, <3>6, <3>7
    <3>9. QED
      BY <3>8 DEF Bounded
  <2>3. QED
    BY <2>1, <2>2
<1>15. QED
  BY <1>4, <1>5, <1>14

LEMMA CreateBoxKept ==
    ASSUME HostTypes, HostTypes', RegistryInv, NEW c \in Clients, CreateBoxOf(c)
    PROVE  RegistryInv'
<1> USE DEF RegistryInv
<1>1. PICK s \in Server : s = creating[c].server
  BY DEF CreateBoxOf, HostTypes, RequestTypes
<1>2. /\ UNCHANGED <<file, beside>> /\ creating[c].at = "create" /\ box[s].state = "none"
      /\ box' = [box EXCEPT ![s] = [state |-> "created", cpu |-> creating[c].cpu, port |-> creating[c].port]]
      /\ creating'[c].at = "start" /\ creating'[c].server = s
      /\ \A d \in Clients \ {c} : creating'[d] = creating[d]
  BY <1>1, GoesEffect DEF CreateBoxOf, HostTypes, RequestTypes, HostPlaces
<1>3. /\ box'[s].state = "created" /\ box'[s].cpu = creating[c].cpu
      /\ \A r \in Server \ {s} : box'[r] = box[r]
  BY <1>2 DEF HostTypes
<1>4. /\ \A d \in Clients : HasBox(d)' <=> HasBox(d) \/ d = c
      /\ \A d \in Clients : HasRead(d)' <=> HasRead(d)
      /\ ~HasBox(c) /\ ~HasRead(c)
  BY <1>2 DEF HasBox, HasRead
<1>5. \A d \in Clients : HasBox(d) => creating[d].server # s /\ creating[d].server \in Server
  BY <1>2 DEF Started, BoxesInv, HasBox, HostTypes, RequestTypes
<1>6. Listed' = Listed /\ Listed \in SUBSET Server
  BY <1>2, ListedType DEF Listed
<1>7. BoxesInv'
  <2>1. \A d \in Clients : creating'[d].at = "start" => box'[creating'[d].server].state = "created"
    BY <1>2, <1>3, <1>5 DEF BoxesInv, HasBox
  <2>2. \A d \in Clients : creating'[d].at \in {"append", "truncate", "write"}
            => box'[creating'[d].server].state \in Started
    BY <1>2, <1>3, <1>5 DEF BoxesInv, HasBox
  <2>3. \A d, e \in Clients : HasBox(d)' /\ HasBox(e)' /\ creating'[d].server = creating'[e].server => d = e
    BY <1>2, <1>4, <1>5 DEF BoxesInv
  <2>4. QED
    BY <2>1, <2>2, <2>3 DEF BoxesInv, HasBox
<1>8. \A d \in Clients : HasRead(d) => creating[d].seen \in SUBSET Server /\ s \notin creating[d].seen
  BY <1>2 DEF ListsInv, GoodList, Started, HostTypes, RequestTypes, Creating
<1>9. s \notin Listed
  BY <1>2 DEF ListsInv, GoodList, Started
<1>10. ListsInv'
  <2>1. GoodList(Listed)'
    BY <1>3, <1>6, <1>9 DEF ListsInv, GoodList
  <2>2. ASSUME NEW d \in Clients, HasRead(d)'
        PROVE  GoodList(creating[d].seen)' /\ \A r \in creating'[d].seen : r.id # creating'[d].server.id
    <3>1. HasRead(d) /\ creating'[d] = creating[d]
      BY <1>2, <1>4, <2>2
    <3>2. QED
      BY <1>3, <1>8, <3>1 DEF ListsInv, GoodList
  <2>3. QED
    BY <2>1, <2>2 DEF ListsInv
<1>11. s \notin Claimed /\ Claimed' = Claimed \cup {s}
  <2>1. Seen' = Seen
    BY <1>2, <1>4 DEF Seen
  <2>2. Made' = Made \cup {s}
    BY <1>2, <1>4 DEF Made
  <2>3. s \notin Seen /\ s \notin Made
    BY <1>5, <1>8 DEF Seen, Made
  <2>4. QED
    BY <1>6, <1>9, <2>1, <2>2, <2>3 DEF Claimed
<1>12. c \in Waiting /\ Waiting' = Waiting \ {c}
  BY <1>2 DEF Waiting
<1>13. FiniteSorts /\ FiniteSorts'
  BY SortsNow, SortsNext
<1>14. PICK n \in Nat : n = creating[c].cpu
  BY <1>13 DEF FiniteSorts
<1>15. SumFunctionOnSet(Limits', Claimed') = n + SumFunctionOnSet(Limits, Claimed)
  <2>1. /\ IsFiniteSet(Claimed) /\ Limits'[s] = n /\ Limits'[s] \in Nat
        /\ \A r \in Claimed : Limits'[r] = Limits[r] /\ Limits'[r] \in Nat
    BY <1>3, <1>11, <1>13, <1>14 DEF FiniteSorts
  <2>2. SumFunctionOnSet(Limits', Claimed') = Limits'[s] + SumFunctionOnSet(Limits', Claimed)
    BY <1>11, <2>1, SumWith
  <2>3. SumFunctionOnSet(Limits', Claimed) = SumFunctionOnSet(Limits, Claimed)
    BY <2>1, SumIsSame
  <2>4. QED
    BY <2>1, <2>2, <2>3
<1>16. SumFunctionOnSet(Asked, Waiting) = n + SumFunctionOnSet(Asked', Waiting')
  <2>1. /\ IsFiniteSet(Waiting) /\ IsFiniteSet(Waiting') /\ Asked[c] = n
        /\ \A d \in Waiting : Asked[d] \in Nat
        /\ \A d \in Waiting' : Asked'[d] = Asked[d]
    BY <1>2, <1>12, <1>13, <1>14 DEF FiniteSorts
  <2>2. SumFunctionOnSet(Asked, Waiting) = Asked[c] + SumFunctionOnSet(Asked, Waiting')
    BY <1>12, <2>1, SumWithout
  <2>3. SumFunctionOnSet(Asked', Waiting') = SumFunctionOnSet(Asked, Waiting')
    BY <2>1, SumIsSame
  <2>4. QED
    BY <2>1, <2>2, <2>3
<1>17. Bounded'
  <2>1. SumFunctionOnSet(Limits, Claimed) \in Nat /\ SumFunctionOnSet(Asked', Waiting') \in Nat
    <3>1. IsFiniteSet(Waiting') /\ \A d \in Waiting' : Asked'[d] \in Nat
      BY <1>13 DEF FiniteSorts
    <3>2. QED
      BY <3>1, SumIsNat, SumsAreNat
  <2>2. SumFunctionOnSet(Limits', Claimed') + SumFunctionOnSet(Asked', Waiting') <= HostCPU + beside'
    BY <1>2, <1>15, <1>16, <2>1 DEF Bounded
  <2>3. QED
    BY <2>2 DEF Bounded
<1>18. QED
  BY <1>7, <1>10, <1>17

LEMMA StartBoxKept ==
    ASSUME HostTypes, HostTypes', RegistryInv, NEW c \in Clients, StartBoxOf(c)
    PROVE  RegistryInv'
<1> USE DEF RegistryInv
<1>1. PICK s \in Server : s = creating[c].server
  BY DEF StartBoxOf, HostTypes, RequestTypes
<1>2. /\ UNCHANGED <<file, beside>> /\ creating[c].at = "start"
      /\ creating'[c].at = "append" /\ creating'[c].server = s
      /\ \A d \in Clients \ {c} : creating'[d] = creating[d]
  BY <1>1, GoesEffect DEF StartBoxOf, HostTypes, RequestTypes, HostPlaces
<1>3. /\ box'[s].state = "running" /\ box'[s].cpu = box[s].cpu
      /\ \A r \in Server \ {s} : box'[r] = box[r]
  <2>1. PICK b \in Box : b = box[s]
    BY DEF HostTypes
  <2>2. PICK e : e = [b EXCEPT !.state = "running"]
    OBVIOUS
  <2>3. e.state = "running" /\ e.cpu = b.cpu
    BY <2>2 DEF Box
  <2>4. box' = [box EXCEPT ![s] = e]
    BY <1>1, <2>1, <2>2 DEF StartBoxOf, HostTypes
  <2>5. QED
    BY <2>1, <2>3, <2>4 DEF HostTypes
<1>4. \A d \in Clients : /\ HasBox(d)' <=> HasBox(d)
                         /\ HasRead(d)' <=> HasRead(d)
                         /\ creating'[d].server = creating[d].server
                         /\ HasRead(d) => creating'[d] = creating[d]
  BY <1>1, <1>2 DEF HasBox, HasRead
<1>5. \A d \in Clients \ {c} : HasBox(d) => creating[d].server # s /\ creating[d].server \in Server
  BY <1>1, <1>2 DEF BoxesInv, HasBox, HostTypes, RequestTypes
<1>6. Listed' = Listed /\ Listed \in SUBSET Server
  BY <1>2, ListedType DEF Listed
<1>7. BoxesInv'
  <2>1. \A d \in Clients : creating'[d].at = "start" => box'[creating'[d].server].state = "created"
    BY <1>2, <1>3, <1>5 DEF BoxesInv, HasBox
  <2>2. \A d \in Clients : creating'[d].at \in {"append", "truncate", "write"}
            => box'[creating'[d].server].state \in Started
    BY <1>2, <1>3, <1>5 DEF Started, BoxesInv, HasBox
  <2>3. \A d, e \in Clients : HasBox(d)' /\ HasBox(e)' /\ creating'[d].server = creating'[e].server => d = e
    BY <1>4 DEF BoxesInv
  <2>4. QED
    BY <2>1, <2>2, <2>3 DEF BoxesInv, HasBox
<1>8. \A d \in Clients : creating[d].seen \in SUBSET Server
  BY DEF HostTypes, RequestTypes, Creating
<1>9. ListsInv'
  <2>1. GoodList(Listed)'
    BY <1>3, <1>6 DEF Started, ListsInv, GoodList
  <2>2. ASSUME NEW d \in Clients, HasRead(d)'
        PROVE  GoodList(creating[d].seen)' /\ \A r \in creating'[d].seen : r.id # creating'[d].server.id
    <3>1. HasRead(d) /\ creating'[d] = creating[d]
      BY <1>4, <2>2
    <3>2. QED
      BY <1>3, <1>8, <3>1 DEF Started, ListsInv, GoodList
  <2>3. QED
    BY <2>1, <2>2 DEF ListsInv
<1>10. Claimed' = Claimed
  <2>1. Seen' = Seen
    BY <1>4 DEF Seen
  <2>2. Made' = Made
    BY <1>4 DEF Made
  <2>3. QED
    BY <1>6, <2>1, <2>2 DEF Claimed
<1>11. \A r \in Claimed' : box'[r].cpu = box[r].cpu
  BY <1>3, <1>10, ClaimedType
<1>12. \A d \in Waiting' : d \in Waiting /\ creating'[d] = creating[d]
  BY <1>2 DEF Waiting
<1>13. Bounded'
  BY <1>2, <1>10, <1>11, <1>12, BoundShrinks
<1>14. QED
  BY <1>7, <1>9, <1>13

LEMMA AppendKept ==
    ASSUME HostTypes, HostTypes', RegistryInv, NEW c \in Clients, AppendServerRecord(c),
           NotListed(creating[c].server),
           creating' = [creating EXCEPT ![c].at = "truncate", ![c].seen = Listed]
    PROVE  RegistryInv'
<1> USE DEF RegistryInv
<1>1. PICK r \in Creating : r = creating[c]
  BY DEF HostTypes, RequestTypes
<1>2. PICK q : q = [r EXCEPT !.at = "truncate", !.seen = Listed]
  OBVIOUS
<1>3. q.at = "truncate" /\ q.server = r.server /\ q.seen = Listed
  BY <1>2 DEF Creating
<1>4. creating' = [creating EXCEPT ![c] = q]
  BY <1>1, <1>2 DEF HostTypes, RequestTypes
<1>5. /\ UNCHANGED <<file, box, beside>> /\ creating[c].at = "append"
      /\ creating'[c] = q /\ \A d \in Clients \ {c} : creating'[d] = creating[d]
  BY <1>4 DEF AppendServerRecord, HostTypes, RequestTypes
<1>6. \A d \in Clients : /\ HasBox(d)' <=> HasBox(d)
                         /\ creating'[d].server = creating[d].server
                         /\ HasRead(d)' <=> HasRead(d) \/ d = c
  BY <1>1, <1>3, <1>5 DEF HasBox, HasRead
<1>7. Listed' = Listed
  BY <1>5 DEF Listed
<1>8. BoxesInv'
  <2>1. \A d \in Clients : creating'[d].at = "start" => creating[d].at = "start"
    BY <1>3, <1>5
  <2>2. \A d \in Clients : creating'[d].at \in {"append", "truncate", "write"}
            => creating[d].at \in {"append", "truncate", "write"}
    BY <1>3, <1>5
  <2>3. UNCHANGED box /\ \A d \in Clients : creating'[d].server = creating[d].server
    BY <1>5, <1>6
  <2>4. /\ \A d \in Clients : creating'[d].at = "start" => box'[creating'[d].server].state = "created"
        /\ \A d \in Clients : creating'[d].at \in {"append", "truncate", "write"}
              => box'[creating'[d].server].state \in Started
    BY <2>1, <2>2, <2>3 DEF BoxesInv
  <2>5. \A d, e \in Clients : HasBox(d)' /\ HasBox(e)' /\ creating'[d].server = creating'[e].server => d = e
    BY <1>6 DEF BoxesInv
  <2>6. QED
    BY <2>4, <2>5 DEF BoxesInv
<1>9. ListsInv'
  <2>1. GoodList(Listed)'
    BY <1>5, <1>7 DEF ListsInv, GoodList
  <2>2. ASSUME NEW d \in Clients, HasRead(d)'
        PROVE  GoodList(creating[d].seen)' /\ \A s \in creating'[d].seen : s.id # creating'[d].server.id
    <3>1. CASE d = c
      <4>1. creating'[d].seen = Listed /\ creating'[d].server = creating[c].server
        BY <1>1, <1>3, <1>5, <3>1
      <4>2. \A s \in Listed : s.id # creating[c].server.id
        BY DEF NotListed
      <4>3. GoodList(creating[d].seen)'
        BY <1>5, <4>1 DEF ListsInv, GoodList
      <4>4. QED
        BY <4>1, <4>2, <4>3
    <3>2. CASE d # c
      BY <1>5, <1>6, <2>2, <3>2 DEF ListsInv, GoodList
    <3>3. QED
      BY <3>1, <3>2
  <2>3. QED
    BY <2>1, <2>2 DEF ListsInv
<1>10. Claimed' \subseteq Claimed
  <2>1. Seen' \subseteq Seen \cup Listed
    <3> SUFFICES ASSUME NEW d \in Clients, HasRead(d)', NEW s \in creating'[d].seen
                 PROVE  s \in Seen \/ s \in Listed
      BY DEF Seen
    <3>1. CASE d = c
      BY <1>3, <1>5, <3>1
    <3>2. CASE d # c
      BY <1>5, <1>6, <3>2 DEF Seen
    <3>3. QED
      BY <3>1, <3>2
  <2>2. Made' = Made
    BY <1>6 DEF Made
  <2>3. QED
    BY <1>7, <2>1, <2>2 DEF Claimed
<1>11. \A d \in Waiting' : d \in Waiting /\ creating'[d] = creating[d]
  BY <1>3, <1>5 DEF Waiting
<1>12. Bounded'
  BY <1>5, <1>10, <1>11, BoundShrinks
<1>13. QED
  BY <1>8, <1>9, <1>12

LEMMA TruncateKept ==
    ASSUME HostTypes, HostTypes', RegistryInv, NEW c \in Clients, TruncateRegistry(c)
    PROVE  RegistryInv'
<1> USE DEF RegistryInv
<1>1. /\ UNCHANGED <<box, beside>> /\ creating[c].at = "truncate"
      /\ creating'[c].at = "write" /\ creating'[c].server = creating[c].server /\ creating'[c].seen = creating[c].seen
      /\ \A d \in Clients \ {c} : creating'[d] = creating[d]
  BY GoesEffect DEF TruncateRegistry, HostTypes, RequestTypes, HostPlaces
<1>2. Listed' = {}
  BY DEF TruncateRegistry, Listed
<1>3. \A d \in Clients : /\ HasBox(d)' <=> HasBox(d)
                         /\ HasRead(d)' <=> HasRead(d)
                         /\ creating'[d].server = creating[d].server
                         /\ creating'[d].seen = creating[d].seen
  BY <1>1 DEF HasBox, HasRead
<1>4. BoxesInv'
  <2>1. \A d \in Clients : creating'[d].at = "start" => creating[d].at = "start"
    BY <1>1
  <2>2. \A d \in Clients : creating'[d].at \in {"append", "truncate", "write"}
            => creating[d].at \in {"append", "truncate", "write"}
    BY <1>1
  <2>3. QED
    BY <1>1, <1>3, <2>1, <2>2 DEF BoxesInv
<1>5. ListsInv'
  <2>1. GoodList(Listed)'
    BY <1>2 DEF GoodList
  <2>2. ASSUME NEW d \in Clients, HasRead(d)'
        PROVE  GoodList(creating[d].seen)' /\ \A s \in creating'[d].seen : s.id # creating'[d].server.id
    BY <1>1, <1>3, <2>2 DEF ListsInv, GoodList
  <2>3. QED
    BY <2>1, <2>2 DEF ListsInv
<1>6. Claimed' \subseteq Claimed
  <2>1. Seen' = Seen
    BY <1>3 DEF Seen
  <2>2. Made' = Made
    BY <1>3 DEF Made
  <2>3. QED
    BY <1>2, <2>1, <2>2 DEF Claimed
<1>7. \A d \in Waiting' : d \in Waiting /\ creating'[d] = creating[d]
  BY <1>1 DEF Waiting
<1>8. Bounded'
  BY <1>1, <1>6, <1>7, BoundShrinks
<1>9. QED
  BY <1>4, <1>5, <1>8

LEMMA WriteRegistryKept ==
    ASSUME HostTypes, HostTypes', RegistryInv, NEW c \in Clients, WriteRegistry(c)
    PROVE  RegistryInv'
<1> USE DEF RegistryInv
<1>1. /\ UNCHANGED <<box, beside>> /\ creating[c].at = "write" /\ creating'[c].at = "idle"
      /\ \A d \in Clients \ {c} : creating'[d] = creating[d]
  BY AnswersEffect DEF WriteRegistry, HostTypes, RequestTypes
<1>2. Listed' = creating[c].seen \cup {creating[c].server}
  BY DEF WriteRegistry, Listed
<1>3. \A d \in Clients : /\ HasBox(d)' => HasBox(d) /\ creating'[d] = creating[d]
                         /\ HasRead(d)' => HasRead(d) /\ creating'[d] = creating[d]
  BY <1>1 DEF HasBox, HasRead
<1>4. HasBox(c) /\ HasRead(c)
  BY <1>1 DEF HasBox, HasRead
<1>5. BoxesInv'
  BY <1>1, <1>3 DEF BoxesInv, HasBox
<1>6. ListsInv'
  <2>1. GoodList(creating[c].seen) /\ \A r \in creating[c].seen : r.id # creating[c].server.id
    BY <1>4 DEF ListsInv
  <2>2. box[creating[c].server].state \in Started
    BY <1>1 DEF BoxesInv
  <2>3. GoodList(Listed)'
    BY <1>1, <1>2, <2>1, <2>2 DEF GoodList
  <2>4. ASSUME NEW d \in Clients, HasRead(d)'
        PROVE  GoodList(creating[d].seen)' /\ \A s \in creating'[d].seen : s.id # creating'[d].server.id
    BY <1>1, <1>3, <2>4 DEF ListsInv, GoodList
  <2>5. QED
    BY <2>3, <2>4 DEF ListsInv
<1>7. Claimed' \subseteq Claimed
  <2>1. Seen' \subseteq Seen
    BY <1>3 DEF Seen
  <2>2. Made' \subseteq Made
    BY <1>3 DEF Made
  <2>3. Listed' \subseteq Seen \cup Made
    BY <1>2, <1>4 DEF Seen, Made
  <2>4. QED
    BY <2>1, <2>2, <2>3 DEF Claimed
<1>8. \A d \in Waiting' : d \in Waiting /\ creating'[d] = creating[d]
  BY <1>1 DEF Waiting
<1>9. Bounded'
  BY <1>1, <1>7, <1>8, BoundShrinks
<1>10. QED
  BY <1>5, <1>6, <1>9

\* A restart leaves who has a container, and its limit, as they were.
LEMMA RestartListedKept ==
    ASSUME HostTypes, HostTypes', RegistryInv, NEW c \in Clients, NEW s \in Server, RestartListed(c, s)
    PROVE  RegistryInv'
<1> USE DEF RegistryInv
<1>1. PICK state \in {"stopped", "running"} : box' = [box EXCEPT ![s].state = state]
  BY DEF RestartListed
<1>2. UNCHANGED <<file, creating, beside>> /\ s \in Listed
  BY DEF RestartListed
<1>3. /\ box'[s].state \in Started /\ box'[s].cpu = box[s].cpu
      /\ \A r \in Server \ {s} : box'[r] = box[r]
  <2>1. PICK b \in Box : b = box[s]
    BY DEF HostTypes
  <2>2. PICK e : e = [b EXCEPT !.state = state]
    OBVIOUS
  <2>3. e.state \in Started /\ e.cpu = b.cpu
    BY <2>2 DEF Box, Started
  <2>4. box' = [box EXCEPT ![s] = e]
    BY <1>1, <2>1, <2>2 DEF HostTypes
  <2>5. QED
    BY <2>1, <2>3, <2>4 DEF HostTypes
<1>4. Listed' = Listed /\ Listed \in SUBSET Server
  BY <1>2, ListedType DEF Listed
<1>5. box[s].state # "created"
  BY <1>2 DEF ListsInv, GoodList, Started
<1>6. \A d \in Clients : /\ HasBox(d)' <=> HasBox(d)
                         /\ HasRead(d)' <=> HasRead(d)
                         /\ HasBox(d) => creating[d].server \in Server
                         /\ creating[d].seen \in SUBSET Server
  BY <1>2 DEF HasBox, HasRead, HostTypes, RequestTypes, Creating
<1>7. BoxesInv'
  <2>1. \A d \in Clients : creating'[d].at = "start" => box'[creating'[d].server].state = "created"
    BY <1>2, <1>3, <1>5, <1>6 DEF BoxesInv, HasBox
  <2>2. \A d \in Clients : creating'[d].at \in {"append", "truncate", "write"}
            => box'[creating'[d].server].state \in Started
    BY <1>2, <1>3, <1>6 DEF BoxesInv, HasBox
  <2>3. QED
    BY <1>2, <1>6, <2>1, <2>2 DEF BoxesInv
<1>8. ListsInv'
  BY <1>2, <1>3, <1>4, <1>6 DEF ListsInv, GoodList
<1>9. Claimed' = Claimed /\ Waiting' = Waiting
  BY <1>2, <1>4 DEF Claimed, Seen, Made, Waiting, HasBox, HasRead
<1>10. \A r \in Claimed' : box'[r].cpu = box[r].cpu
  BY <1>3, <1>9, ClaimedType
<1>11. Bounded'
  BY <1>2, <1>9, <1>10, BoundShrinks
<1>12. QED
  BY <1>7, <1>8, <1>11

LEMMA RegistryNext ==
    ASSUME HostTypes, HostTypes', RegistryInv, [HostNext]_hostVars
    PROVE  RegistryInv'
<1> USE DEF HostTypes, RequestTypes
<1>1. ASSUME NEW c \in Clients, Login(c) \/ EndSession(c) \/ ApiRestart(c)
      PROVE  RegistryInv'
  BY <1>1, RequestsLeave DEF Login, EndSession, ApiRestart
<1>2. CASE RestartLater \/ UNCHANGED hostVars
  BY <1>2, RequestsLeave DEF RestartLater, hostVars
<1>3. CASE CompanionDies
  <2>1. \A c \in Clients : ~UnderWay(c)'
    BY <1>3, NoCreateType DEF CompanionDies, UnderWay
  <2>2. QED
    BY <1>3, <2>1, RequestsLeave DEF CompanionDies
<1>4. ASSUME NEW c \in Clients, BeginSave(c)
      PROVE  RegistryInv'
  <2>1. PICK r \in Creating : r = creating[c]
    OBVIOUS
  <2>2. PICK q : q = [r EXCEPT !.at = "config", !.save = saves + 1]
    OBVIOUS
  <2>3. q.at = "config"
    BY <2>2 DEF Creating
  <2>4. creating' = [creating EXCEPT ![c] = q]
    BY <1>4, <2>1, <2>2 DEF BeginSave
  <2>5. ~UnderWay(c)' /\ \A d \in Clients \ {c} : creating'[d] = creating[d]
    BY <2>3, <2>4 DEF UnderWay
  <2>6. QED
    BY <1>4, <2>5, RequestsLeave DEF BeginSave
<1>5. ASSUME NEW c \in Clients, Answers(c), UNCHANGED <<file, box, beside>>
      PROVE  RegistryInv'
  <2>1. ~UnderWay(c)' /\ \A d \in Clients \ {c} : creating'[d] = creating[d]
    BY <1>5, AnswersEffect DEF UnderWay
  <2>2. QED
    BY <1>5, <2>1, RequestsLeave
<1>6. ASSUME NEW c \in Clients, EndSave(c)
      PROVE  RegistryInv'
  BY <1>5, <1>6 DEF EndSave
<1>7. ASSUME NEW c \in Clients, NEW s \in Server, NEW n \in CPUs, NEW p \in HostPorts,
             CreateManagedServer(c, s, n, p)
      PROVE  RegistryInv'
  <2>1. ~UnderWay(c)' /\ \A d \in Clients \ {c} : creating'[d] = creating[d]
    BY <1>7 DEF CreateManagedServer, UnderWay
  <2>2. QED
    BY <1>7, <2>1, RequestsLeave DEF CreateManagedServer
<1>8. ASSUME NEW c \in Clients, ValidateInfraCapacity(c)
      PROVE  RegistryInv'
  <2>1. PICK seen \in SUBSET Counted, missed \in {0, OtherCPU} :
            /\ creating[c].cpu <= FreeCPU(seen, missed) /\ Goes(c, "create")
            /\ beside' = IF seen # Counted \/ missed # 0 \/ \E d \in Clients : UnderWay(d)
                         THEN beside + creating[c].cpu ELSE 0
    BY <1>8 DEF ValidateInfraCapacity
  <2>2. QED
    BY <1>8, <2>1, LetThrough
<1>9. ASSUME NEW c \in Clients, RefuseCapacity(c) \/ CreateBoxFails(c) \/ StartBoxFails(c)
      PROVE  RegistryInv'
  BY <1>5, <1>9 DEF RefuseCapacity, CreateBoxFails, StartBoxFails
<1>10. ASSUME NEW c \in Clients, AppendServerRecord(c)
       PROVE  RegistryInv'
  BY <1>5, <1>10, AppendKept DEF AppendServerRecord
<1>11. QED
  BY <1>1, <1>2, <1>3, <1>4, <1>6, <1>7, <1>8, <1>9, <1>10, CreateBoxKept, StartBoxKept, TruncateKept,
     WriteRegistryKept, RestartListedKept DEF HostNext, Configures, Registers

LEMMA RegistryInit == HostInit => RegistryInv
<1> SUFFICES ASSUME HostInit PROVE RegistryInv
  OBVIOUS
<1>1. \A c \in Clients : creating[c].at = "idle"
  BY NoCreateType DEF HostInit
<1>2. Listed = Legacy
  BY DEF HostInit, Listed
<1>3. \A s \in Legacy : box[s].state = "running"
  BY Constants DEF HostInit
<1>4. BoxesInv /\ ListsInv
  BY <1>1, <1>2, <1>3, LegacyAssumption DEF Started, BoxesInv, ListsInv, GoodList, HasBox, HasRead
<1>5. Claimed = Listed /\ Counted = Listed /\ Waiting = {}
  BY <1>1, <1>2, <1>3 DEF Claimed, Seen, Made, Counted, Waiting, HasBox, HasRead
<1>6. Allocated = SumFunctionOnSet(Limits, Claimed)
  BY <1>5 DEF Allocated, Limits
<1>7. SumFunctionOnSet(Asked, Waiting) = 0
  BY <1>5, SumOfNone
<1>8. SumFunctionOnSet(Limits, Claimed) \in Nat
  BY HostInitTypes, SumsAreNat
<1>9. Allocated <= HostCPU /\ beside = 0
  BY DEF HostInit
<1>10. Bounded
  BY <1>6, <1>7, <1>8, <1>9, Constants DEF Bounded
<1>11. QED
  BY <1>4, <1>10 DEF RegistryInv

\* What the registry lists is part of what is claimed.
LEMMA ListedFits ==
    ASSUME HostTypes, RegistryInv
    PROVE  RegistryIsSound
<1>1. Counted \subseteq Claimed
  BY DEF Counted, Claimed
<1>2. FiniteSorts
  BY SortsNow
<1>3. /\ IsFiniteSet(Claimed) /\ IsFiniteSet(Counted)
      /\ \A s \in Claimed : Limits[s] \in Nat
  BY <1>1, <1>2, FS_Subset DEF FiniteSorts
<1>4. Allocated <= SumFunctionOnSet(Limits, Claimed)
  BY <1>1, <1>3, SumOfFewer DEF Allocated, Limits
<1>5. /\ SumFunctionOnSet(Limits, Claimed) \in Nat /\ SumFunctionOnSet(Limits, Counted) \in Nat
      /\ SumFunctionOnSet(Asked, Waiting) \in Nat
  BY <1>1, <1>3, SumIsNat, SumsAreNat
<1>6. Allocated \in Nat
  BY <1>5 DEF Allocated, Limits
<1>7. Allocated <= HostCPU + beside
  BY <1>4, <1>5, <1>6, Constants DEF RegistryInv, Bounded, HostTypes
<1>8. QED
  BY <1>7 DEF RegistryIsSound, RegistryInv, ListsInv, GoodList

-----------------------------------------------------------------------------
\* Requests, the registry, containers and settings keep their types, and no more
\* restarts sleep than saves were begun.
THEOREM HostTyped == HostSpec => []HostTypeOK
<1>1. HostInit => SettingsOK
  BY SettingsInit
<1>2. SettingsOK /\ [HostNext]_hostVars => SettingsOK'
  BY SettingsNext
<1>3. SettingsOK => HostTypeOK
  BY SettingsTyped
<1>4. QED
  BY <1>1, <1>2, <1>3, PTL DEF HostSpec

\* Saves that overlap, restarts that come late or fail and a companion that dies: once
\* nothing is under way the built-in server runs with what its file has, unless the
\* last restart was lost, and a save that was begun alone is in the file, whole.
THEOREM SettingsTakeEffect == HostSpec => []SettingsInForce
<1>1. HostInit => SettingsOK
  BY SettingsInit
<1>2. SettingsOK /\ [HostNext]_hostVars => SettingsOK'
  BY SettingsNext
<1>3. SettingsOK => SettingsInForce
  BY DEF SettingsOK, SettingsInv, SettingsInForce, Latest, Saving
<1>4. QED
  BY <1>1, <1>2, <1>3, PTL DEF HostSpec

\* However requests for servers interleave in reading, cutting off and rewriting the
\* registry: no id is listed twice, what is listed has its container, and the host is
\* overrun by no more than what was let through beside requests under way or by a
\* count that Docker left incomplete.
THEOREM RegistrySound == HostSpec => []RegistryIsSound
<1>1. HostInit => SettingsOK /\ RegistryInv
  BY SettingsInit, RegistryInit
<1>2. SettingsOK /\ RegistryInv /\ [HostNext]_hostVars => (SettingsOK /\ RegistryInv)'
  <2> SUFFICES ASSUME SettingsOK, RegistryInv, [HostNext]_hostVars PROVE SettingsOK' /\ RegistryInv'
    OBVIOUS
  <2>1. SettingsOK'
    BY SettingsNext
  <2>2. HostTypes /\ HostTypes'
    BY <2>1 DEF SettingsOK
  <2>3. QED
    BY <2>1, <2>2, RegistryNext
<1>3. SettingsOK /\ RegistryInv => RegistryIsSound
  BY ListedFits DEF SettingsOK
<1>4. QED
  BY <1>1, <1>2, <1>3, PTL DEF HostSpec

-----------------------------------------------------------------------------
(* The players' clients *)

Hash == [zip : 0 .. MaxBases, address : 0 .. 2]
Card == [there : BOOLEAN, client : Hash, base : 0 .. MaxBases]
Stamp == [client : Hash, base : 0 .. MaxBases]
InstallPlaces == {"idle", "base", "full", "patch", "unzip base", "unzip", "stamp client", "stamp base"}
Install == [at : InstallPlaces, updating : BOOLEAN, hashed : BOOLEAN, whole : BOOLEAN,
            zip : [Entries -> Entry], todo : SUBSET Entries, kept : Entry]

ServerTypes ==
    /\ template \in ClientTemplates /\ order \in ZipOrders /\ there \in BOOLEAN
    /\ base \in 1 .. MaxBases /\ address \in 1 .. 2 /\ moves \in 0 .. MaxMoves

LauncherTypes ==
    /\ card \in Card /\ disk \in [Entries -> Entry] /\ stamp \in Stamp
    /\ cache \in [1 .. MaxBases -> 0 .. MaxBases] /\ install \in Install
    /\ options \in 0 .. MaxOptions /\ unstamped \in BOOLEAN /\ optionsAtRisk \in BOOLEAN

ClientTypes == ServerTypes /\ LauncherTypes

\* What the launcher has heard of is no newer than what is published, and the zip
\* cached for a hash is the one that was hashed or a newer one.
Past(h) == h.zip <= base /\ h.address <= address
PublishInv ==
    /\ ~CameBack => address = moves + 1 /\ Past(card.client) /\ Past(stamp.client)
    /\ card.base <= base /\ stamp.base <= base
    /\ card.base # 0 => card.client.zip = card.base
    /\ \A h \in 1 .. MaxBases : cache[h] # 0 => h <= cache[h] /\ cache[h] <= base

\* A card is no older than the stamps.
CardInv ==
    card.base # 0 => /\ ~CameBack /\ stamp.client = Revision => card.client = Revision
                     /\ stamp.base = base => card.base = base

\* What each step of an install relies on.
ProgressInv ==
    /\ Installing => (install.hashed <=> card.base # 0)
    /\ install.at = "base" => card.base # 0
    /\ install.at = "full" => card.base = 0 /\ ~install.updating
    /\ install.at = "unzip base" => \E z \in 1 .. MaxBases : install.zip = BaseZip(z)
    /\ install.at = "unzip" => \E z \in 1 .. MaxBases, a \in 1 .. 2 : install.zip = FullZip(template, z, a)

\* Whatever was installed once is there, and a first install ends with a stamp of
\* its base or is remembered.
ReadyInv ==
    /\ Installing /\ install.updating => Ready
    /\ install.at \in {"stamp client", "stamp base"} => Ready
    /\ stamp.base # 0 \/ stamp.client # NoHash => Ready
    /\ ~unstamped /\ Ready /\ stamp.base = 0 => Installing /\ ~install.updating

Whole == UpdatesWhole(template)
Stamped == unstamped => Whole
FromBase == Entries \ (PatchHas(template) \cup {"options"})
BaseIs(b) == \A e \in FromBase : disk[e] = Plain(b)
PastBase == install.at \in {"patch", "unzip", "stamp client", "stamp base"}

\* The entries no patch has: as long as the newest base is the one that is stamped, or
\* the one that is being installed, they are from it.
BaseInv ==
    /\ ~Whole /\ Stamped /\ stamp.base = base => BaseIs(base) /\ (Installing => PastBase /\ install.hashed)
    /\ Stamped /\ card.base = base /\ PastBase => BaseIs(base)
    /\ install.at = "unzip base" /\ card.base = base =>
          /\ install.zip = BaseZip(base)
          /\ \A e \in Entries \ ({"options"} \cup install.todo) : disk[e] = Plain(base)

\* The entries of the patch: as long as the card is the newest, they are being put
\* there for it.
Right(e) == disk[e] = FullZip(template, base, address)[e]
Newest == ~CameBack /\ card.client = Revision /\ install.hashed
PatchInv ==
    /\ install.at = "unzip" /\ install.hashed => install.todo \subseteq PatchHas(template)
    /\ install.at = "unzip" /\ Newest =>
          /\ install.zip = FullZip(template, base, address)
          /\ \A e \in PatchHas(template) \ install.todo : Right(e)
    /\ install.at \in {"stamp client", "stamp base"} /\ Newest => \A e \in PatchHas(template) : Right(e)

\* A stamp that is the newest hash stays right until something is published.
StampInv ==
    ~CameBack /\ stamp.client = Revision =>
        /\ Installing => install.at = "stamp base"
        /\ Stamped => \A e \in Entries \ {"options"} : Right(e)

\* The options saved last are on disk or in the launcher's hands.
Safe == options > 0 /\ ~optionsAtRisk
InHand ==
    \/ install.kept.saved = options
    \/ install.kept = Missing /\ disk["options"].saved = options /\ "options" \notin install.todo
OptionsInv ==
    /\ options > 0 => HasOptions(template)
    /\ Safe => Ready /\ (Installing => install.updating)
    /\ Safe /\ Unzipping => InHand
    /\ Safe /\ ~Unzipping => disk["options"].saved = options
    /\ Installing /\ ~Unzipping => install.kept = Missing

FilesInv == PublishInv /\ CardInv /\ ProgressInv /\ ReadyInv /\ BaseInv /\ PatchInv /\ StampInv
ClientsInv == ClientTypes /\ FilesInv /\ OptionsInv

-----------------------------------------------------------------------------
LEMMA EntrySets ==
    ASSUME NEW t \in ClientTemplates
    PROVE  /\ Rewrites(t) \subseteq PatchHas(t) /\ PatchHas(t) \subseteq Entries
           /\ "options" \notin PatchHas(t) /\ "options" \notin Required(t) /\ Required(t) \subseteq Entries
           /\ "options" \in Entries
BY DEF ClientTemplates, Rewrites, PatchHas, Required, Entries

LEMMA EntryTypes ==
    /\ Missing \in Entry /\ Torn \in Entry
    /\ \A b \in 0 .. MaxBases : Plain(b) \in Entry
    /\ \A b \in 0 .. MaxBases, a \in 0 .. 2 : Rewritten(b, a) \in Entry
<1>1. 0 \in 0 .. MaxBases /\ 0 \in 0 .. 2 /\ 0 \in 0 .. MaxOptions + 1 /\ MaxOptions + 1 \in 0 .. MaxOptions + 1
  BY GameClientsAssumption
<1>2. QED
  BY <1>1 DEF Missing, Torn, Plain, Rewritten, Entry

LEMMA ZipTypes ==
    ASSUME NEW t \in ClientTemplates
    PROVE  /\ \A b \in 0 .. MaxBases : BaseZip(b) \in [Entries -> Entry]
           /\ \A b \in 0 .. MaxBases, a \in 0 .. 2 : FullZip(t, b, a) \in [Entries -> Entry]
BY EntryTypes DEF BaseZip, FullZip

LEMMA NotMissing ==
    /\ Torn # Missing
    /\ \A b \in 1 .. MaxBases : Plain(b) # Missing
    /\ \A b \in 1 .. MaxBases, a \in 0 .. 2 : Rewritten(b, a) # Missing
    /\ \A e \in Entry : \A n \in Nat : [e EXCEPT !.saved = n + 1] # Missing
    /\ \A e \in Entry : e.saved > 0 => e # Missing
<1>1. Torn # Missing
  <2>1. Torn.saved = MaxOptions + 1 /\ Missing.saved = 0
    BY DEF Torn, Missing
  <2>2. QED
    BY <2>1, GameClientsAssumption
<1>2. ASSUME NEW b \in 1 .. MaxBases PROVE Plain(b) # Missing
  <2>1. Plain(b).zip = b /\ Missing.zip = 0
    BY DEF Plain, Missing
  <2>2. QED
    BY <2>1
<1>3. ASSUME NEW b \in 1 .. MaxBases, NEW a \in 0 .. 2 PROVE Rewritten(b, a) # Missing
  <2>1. Rewritten(b, a).zip = b /\ Missing.zip = 0
    BY DEF Rewritten, Missing
  <2>2. QED
    BY <2>1
<1>4. ASSUME NEW e \in Entry, NEW n \in Nat PROVE [e EXCEPT !.saved = n + 1] # Missing
  <2>1. [e EXCEPT !.saved = n + 1].saved = n + 1
    BY DEF Entry
  <2>2. Missing.saved = 0 /\ n + 1 # 0
    BY DEF Missing
  <2>3. QED
    BY <2>1, <2>2
<1>5. ASSUME NEW e \in Entry, e.saved > 0 PROVE e # Missing
  BY <1>5 DEF Missing
<1>6. QED
  BY <1>1, <1>2, <1>3, <1>4, <1>5

LEMMA ZipEntries ==
    ASSUME NEW t \in ClientTemplates, NEW b \in 1 .. MaxBases, NEW e \in Entries
    PROVE  /\ BaseZip(b)[e] = Plain(b) /\ BaseZip(b)[e] # Missing
           /\ \A a \in 1 .. 2 : FullZip(t, b, a)[e] # Missing
           /\ \A a \in 1 .. 2 : e \notin PatchHas(t) => FullZip(t, b, a)[e] = Plain(b)
BY NotMissing, EntrySets DEF BaseZip, FullZip

LEMMA ForemostIsLeft ==
    ASSUME ClientTypes, install.todo # {}
    PROVE  Foremost \in install.todo /\ Foremost \in Entries
<1>1. order \in [1 .. 5 -> Entries] /\ \A e \in Entries : \E i \in 1 .. 5 : order[i] = e
  BY GameClientsAssumption DEF ClientTypes, ServerTypes
<1>2. \A e \in Entries : Position(e) \in 1 .. 5
  BY <1>1 DEF Position
<1>3. install.todo \subseteq Entries
  BY DEF ClientTypes, LauncherTypes, Install
<1> DEFINE T == {Position(e) : e \in install.todo}
<1>4. T \in SUBSET Nat /\ T # {}
  BY <1>2, <1>3
<1>5. PICK n \in T : \A m \in T : n <= m
  <2> HIDE DEF T
  <2> QED
    BY <1>4, LeastNat
<1>6. \E e \in install.todo : \A f \in install.todo : Position(e) <= Position(f)
  BY <1>5
<1>7. Foremost \in install.todo
  BY <1>6 DEF Foremost
<1>8. QED
  BY <1>3, <1>7

LEMMA InstallTypes ==
    ASSUME ClientTypes
    PROVE  /\ install.at \in InstallPlaces /\ install.updating \in BOOLEAN /\ install.hashed \in BOOLEAN
           /\ install.zip \in [Entries -> Entry] /\ install.todo \subseteq Entries /\ install.kept \in Entry
BY DEF ClientTypes, LauncherTypes, Install

LEMMA Numbers ==
    ASSUME ClientTypes
    PROVE  /\ base \in Nat /\ base # 0 /\ base \in 1 .. MaxBases /\ address \in Nat /\ moves \in Nat
           /\ card.base \in Nat /\ card.client.zip \in Nat /\ card.client.address \in Nat /\ card.client \in Hash
           /\ stamp.base \in Nat /\ stamp.client.zip \in Nat /\ stamp.client.address \in Nat /\ stamp.client \in Hash
           /\ options \in Nat
<1>1. MaxBases \in Nat /\ MaxMoves \in Nat /\ MaxOptions \in Nat
  BY GameClientsAssumption
<1>2. base \in Nat /\ base # 0 /\ base \in 1 .. MaxBases /\ address \in Nat /\ moves \in Nat /\ options \in Nat
  BY <1>1 DEF ClientTypes, ServerTypes, LauncherTypes
<1>3. ASSUME NEW h \in Hash PROVE h.zip \in Nat /\ h.address \in Nat
  <2>1. PICK z \in 0 .. MaxBases, a \in 0 .. 2 : z = h.zip /\ a = h.address
    BY DEF Hash
  <2>2. z \in Nat /\ a \in Nat
    BY <1>1
  <2>3. QED
    BY <2>1, <2>2
<1>4. card.client \in Hash /\ stamp.client \in Hash
  BY DEF ClientTypes, LauncherTypes, Card, Stamp
<1>5. PICK c \in 0 .. MaxBases, s \in 0 .. MaxBases : c = card.base /\ s = stamp.base
  BY DEF ClientTypes, LauncherTypes, Card, Stamp
<1>6. c \in Nat /\ s \in Nat
  BY <1>1
<1>7. QED
  BY <1>2, <1>3, <1>4, <1>5, <1>6

LEMMA RevisionFields == Revision.zip = base /\ Revision.address = address
BY DEF Revision

\* Something newer is published: what the launcher knows is no longer the newest.
LEMMA UploadKept == ClientsInv /\ UploadBase => ClientsInv'
<1> SUFFICES ASSUME ClientsInv, UploadBase PROVE ClientsInv'
  OBVIOUS
<1> USE DEF UploadBase, LauncherStill
<1>1. ClientTypes /\ PublishInv /\ CardInv /\ ProgressInv /\ ReadyInv /\ BaseInv /\ PatchInv /\ StampInv /\ OptionsInv
  BY DEF ClientsInv, FilesInv
<1>2. MaxBases \in Nat
  BY GameClientsAssumption
<1>3. ClientTypes'
  BY <1>1, <1>2 DEF ClientTypes, ServerTypes, LauncherTypes
<1>4. Revision'.zip = base + 1 /\ Revision'.address = address
  BY DEF Revision
<1>5. /\ ~CameBack => card.client # Revision' /\ stamp.client # Revision'
      /\ stamp.base # base' /\ card.base # base'
  BY <1>1, <1>4, Numbers DEF PublishInv, Past
<1>6. PublishInv'
  <2>1. \A h \in 1 .. MaxBases : cache[h] # 0 => h <= cache[h] /\ cache[h] <= base + 1
    <3>1. ASSUME NEW h \in 1 .. MaxBases, cache[h] # 0 PROVE h <= cache[h] /\ cache[h] <= base + 1
      <4>1. cache[h] \in 0 .. MaxBases /\ cache[h] <= base /\ h <= cache[h]
        BY <1>1, <3>1 DEF PublishInv, ClientTypes, LauncherTypes
      <4>2. QED
        BY <1>1, <1>2, <4>1, Numbers
    <3>2. QED
      BY <3>1
  <2>2. card.base <= base + 1 /\ stamp.base <= base + 1
    BY <1>1, Numbers DEF PublishInv
  <2>3. ~CameBack => Past(card.client)' /\ Past(stamp.client)'
    BY <1>1, Numbers DEF PublishInv, Past
  <2>4. QED
    BY <1>1, <2>1, <2>2, <2>3 DEF PublishInv, CameBack
<1>7. CardInv'
  BY <1>5 DEF CardInv, CameBack
<1>8. ProgressInv'
  BY <1>1 DEF ProgressInv, Installing
<1>9. ReadyInv'
  BY <1>1 DEF ReadyInv, Installing, Ready
<1>10. BaseInv'
  BY <1>5 DEF BaseInv
<1>11. PatchInv'
  BY <1>1, <1>5 DEF PatchInv, Newest, CameBack
<1>12. StampInv'
  BY <1>5 DEF StampInv, CameBack
<1>13. OptionsInv'
  BY <1>1 DEF OptionsInv, Safe, InHand, Ready, Installing, Unzipping
<1>14. QED
  BY <1>3, <1>6, <1>7, <1>8, <1>9, <1>10, <1>11, <1>12, <1>13 DEF ClientsInv, FilesInv

LEMMA MoveKept == ClientsInv /\ MoveServer => ClientsInv'
<1> SUFFICES ASSUME ClientsInv, MoveServer PROVE ClientsInv'
  OBVIOUS
<1> USE DEF MoveServer, LauncherStill
<1>1. ClientTypes /\ PublishInv /\ CardInv /\ ProgressInv /\ ReadyInv /\ BaseInv /\ PatchInv /\ StampInv /\ OptionsInv
  BY DEF ClientsInv, FilesInv
<1>2. MaxMoves \in Nat
  BY GameClientsAssumption
<1>3. ClientTypes'
  BY <1>1, <1>2 DEF ClientTypes, ServerTypes, LauncherTypes
<1>4. Revision'.zip = base /\ Revision'.address = 3 - address
  BY DEF Revision
<1>5. ~CameBack' => ~CameBack /\ moves = 0 /\ address = 1 /\ address' = 2
  BY <1>1, Numbers DEF CameBack, PublishInv
<1>6. ~CameBack' => card.client # Revision' /\ stamp.client # Revision'
  BY <1>1, <1>4, <1>5, Numbers DEF PublishInv, Past
<1>7. PublishInv'
  BY <1>1, <1>5, Numbers DEF PublishInv, Past
<1>8. CardInv'
  BY <1>1, <1>6 DEF CardInv
<1>9. ProgressInv'
  BY <1>1 DEF ProgressInv, Installing
<1>10. ReadyInv'
  BY <1>1 DEF ReadyInv, Installing, Ready
<1>11. BaseInv'
  BY <1>1 DEF BaseInv, Whole, Stamped, BaseIs, FromBase, PastBase, Installing
<1>12. PatchInv'
  BY <1>1, <1>6 DEF PatchInv, Newest
<1>13. StampInv'
  BY <1>6 DEF StampInv
<1>14. OptionsInv'
  BY <1>1 DEF OptionsInv, Safe, InHand, Ready, Installing, Unzipping
<1>15. QED
  BY <1>3, <1>7, <1>8, <1>9, <1>10, <1>11, <1>12, <1>13, <1>14 DEF ClientsInv, FilesInv

\* Whether the zip is there, which is what a deletion changes, is not in the invariant.
LEMMA StillKept ==
    ClientsInv /\ there' \in BOOLEAN /\ UNCHANGED <<template, order, base, address, moves>> /\ LauncherStill => ClientsInv'
<1> SUFFICES ASSUME ClientsInv, there' \in BOOLEAN, UNCHANGED <<template, order, base, address, moves>>, LauncherStill PROVE ClientsInv'
  OBVIOUS
<1> USE DEF LauncherStill
<1>1. ClientTypes /\ PublishInv /\ CardInv /\ ProgressInv /\ ReadyInv /\ BaseInv /\ PatchInv /\ StampInv /\ OptionsInv
  BY DEF ClientsInv, FilesInv
<1>2. ClientTypes'
  BY <1>1 DEF ClientTypes, ServerTypes, LauncherTypes
<1>3. Revision' = Revision /\ Ready' = Ready
  BY DEF Revision, Ready
<1>4. PublishInv' /\ CardInv' /\ ProgressInv'
  BY <1>1, <1>3 DEF PublishInv, CardInv, ProgressInv, Past, CameBack, Installing
<1>5. ReadyInv'
  BY <1>1, <1>3 DEF ReadyInv, Installing
<1>6. BaseInv' /\ PatchInv' /\ StampInv'
  BY <1>1, <1>3
     DEF BaseInv, PatchInv, StampInv, Whole, Stamped, BaseIs, FromBase, PastBase, Installing, Newest, Right, CameBack
<1>7. OptionsInv'
  BY <1>1, <1>3 DEF OptionsInv, Safe, InHand, Installing, Unzipping
<1>8. QED
  BY <1>2, <1>4, <1>5, <1>6, <1>7 DEF ClientsInv, FilesInv

LEMMA PublishesKept == ClientsInv /\ Publishes => ClientsInv'
BY UploadKept, MoveKept, StillKept DEF Publishes, DeleteBase

\* A card that is read again is the newest there is, or has no hashes.
LEMMA GetKept == ClientsInv /\ GetGames => ClientsInv'
<1> SUFFICES ASSUME ClientsInv, GetGames PROVE ClientsInv'
  OBVIOUS
<1> USE DEF GetGames, ServerStill
<1>1. ClientTypes /\ PublishInv /\ CardInv /\ ProgressInv /\ ReadyInv /\ BaseInv /\ PatchInv /\ StampInv /\ OptionsInv
  BY DEF ClientsInv, FilesInv
<1>2. Revision' = Revision /\ Ready' = Ready /\ Revision \in Hash /\ NoHash \in Hash
  BY <1>1, GameClientsAssumption DEF Revision, Ready, NoHash, Hash, ClientTypes, ServerTypes
<1>3. \/ card'.client = Revision /\ card'.base = base
      \/ card'.client = NoHash /\ card'.base = 0
  OBVIOUS
<1>4. card' \in Card
  <2>1. PICK t \in BOOLEAN, h \in Hash, b \in 0 .. MaxBases : card' = [there |-> t, client |-> h, base |-> b]
    <3>1. 0 \in 0 .. MaxBases /\ base \in 0 .. MaxBases /\ there \in BOOLEAN
      BY <1>1, GameClientsAssumption DEF ClientTypes, ServerTypes
    <3>2. CASE card' = [there |-> TRUE, client |-> NoHash, base |-> 0]
      BY <1>2, <3>1, <3>2
    <3>3. CASE card' = [there |-> there, client |-> Revision, base |-> base]
      BY <1>2, <3>1, <3>3
    <3>4. QED
      BY <3>2, <3>3
  <2>2. QED
    BY <2>1 DEF Card
<1>5. ClientTypes'
  BY <1>1, <1>4 DEF ClientTypes, ServerTypes, LauncherTypes
<1>6. PublishInv'
  BY <1>1, <1>2, <1>3, Numbers, RevisionFields DEF PublishInv, Past, CameBack, NoHash
<1>7. CardInv'
  BY <1>1, <1>2, <1>3 DEF CardInv, CameBack
<1>8. ~Installing /\ install.at = "idle"
  BY DEF Installing
<1>9. ProgressInv'
  BY <1>8 DEF ProgressInv, Installing
<1>10. ReadyInv'
  BY <1>1, <1>2 DEF ReadyInv, Installing
<1>11. BaseInv'
  BY <1>1, <1>8 DEF BaseInv, Whole, Stamped, BaseIs, FromBase, PastBase, Installing
<1>12. PatchInv' /\ StampInv'
  BY <1>1, <1>2, <1>8 DEF PatchInv, StampInv, Stamped, Whole, Installing, CameBack, Right
<1>13. OptionsInv'
  BY <1>1, <1>2 DEF OptionsInv, Safe, InHand, Installing, Unzipping
<1>14. QED
  BY <1>5, <1>6, <1>7, <1>9, <1>10, <1>11, <1>12, <1>13 DEF ClientsInv, FilesInv

LEMMA NoHashIsOld == ClientTypes => Revision # NoHash /\ NoHash \in Hash
<1> SUFFICES ASSUME ClientTypes PROVE Revision # NoHash /\ NoHash \in Hash
  OBVIOUS
<1>1. Revision.zip # NoHash.zip
  BY Numbers, RevisionFields DEF NoHash
<1>2. 0 \in 0 .. MaxBases /\ 0 \in 0 .. 2
  BY GameClientsAssumption
<1>3. QED
  BY <1>1, <1>2 DEF NoHash, Hash

\* Files that were there stay there.
LEMMA ReadyStays ==
    ASSUME template \in ClientTemplates, template' = template,
           \A e \in Entries \ {"options"} : disk[e] # Missing => disk'[e] # Missing
    PROVE  Ready => Ready'
BY EntrySets DEF Ready

LEMMA ReadySame ==
    ASSUME template \in ClientTemplates, template' = template, \A e \in Entries \ {"options"} : disk'[e] = disk[e]
    PROVE  Ready' = Ready
BY EntrySets DEF Ready

LEMMA RestoredDisk ==
    ASSUME ClientTypes, NEW d \in [Entries -> Entry]
    PROVE  /\ Restored(d) \in [Entries -> Entry]
           /\ \A e \in Entries \ {"options"} : Restored(d)[e] = d[e]
           /\ install.kept # Missing => Restored(d)["options"] = install.kept
           /\ install.kept = Missing => Restored(d) = d
<1>1. "options" \in Entries /\ install.kept \in Entry
  BY InstallTypes DEF Entries
<1>2. QED
  BY <1>1 DEF Restored

\* What the steps of an install do to its record.
LEMMA ExtractsRecord ==
    ASSUME ClientTypes, NEW z \in [Entries -> Entry], NEW E \in SUBSET Entries, NEW k \in Entry, NEW n \in InstallPlaces,
           Extracts(z, E, k, n)
    PROVE  /\ install' \in Install
           /\ install'.at = n /\ install'.zip = z /\ install'.todo = E /\ install'.kept = k
           /\ install'.updating = install.updating /\ install'.hashed = install.hashed
BY DEF ClientTypes, LauncherTypes, Install, Extracts

LEMMA NotInstallingRecord ==
    /\ NotInstalling \in Install
    /\ NotInstalling.at = "idle" /\ NotInstalling.kept = Missing /\ NotInstalling.todo = {}
<1>1. BaseZip(0) \in [Entries -> Entry] /\ Missing \in Entry
  <2>1. 0 \in 0 .. MaxBases
    BY GameClientsAssumption
  <2>2. "rakion" \in ClientTemplates
    BY DEF ClientTemplates
  <2>3. QED
    BY <2>1, <2>2, ZipTypes, EntryTypes
<1>2. QED
  BY <1>1 DEF NotInstalling, Install, InstallPlaces

LEMMA InstallKept == ClientsInv /\ InstallGame => ClientsInv'
<1> SUFFICES ASSUME ClientsInv, InstallGame PROVE ClientsInv'
  OBVIOUS
<1> USE DEF ServerStill
<1>1. ClientTypes /\ PublishInv /\ CardInv /\ ProgressInv /\ ReadyInv /\ BaseInv /\ PatchInv /\ StampInv /\ OptionsInv
  BY DEF ClientsInv, FilesInv
<1>2. PICK at \in {"full", "base", "patch"}, u \in BOOLEAN, h \in BOOLEAN, w \in BOOLEAN :
        /\ at = IF card.base = 0 THEN "full" ELSE IF NeedsBase THEN "base" ELSE "patch"
        /\ u <=> Ready
        /\ h <=> card.base # 0
        /\ w <=> NeedsBase
        /\ install' = [NotInstalling EXCEPT !.at = at, !.updating = u, !.hashed = h, !.whole = w]
  BY Zenon DEF InstallGame, Ready, NeedsBase
<1>3. /\ install' \in Install
      /\ install'.at = at /\ install'.updating = u /\ install'.hashed = h
      /\ install'.kept = Missing
  BY <1>2, NotInstallingRecord DEF Install, InstallPlaces
<1>4. ClientTypes'
  BY <1>1, <1>3 DEF ClientTypes, ServerTypes, LauncherTypes, InstallGame
<1>5. Revision' = Revision /\ Ready' = Ready
  BY DEF InstallGame, Revision, Ready
<1>6. ~Installing /\ install.at = "idle" /\ Installing' /\ ~Unzipping /\ ~Unzipping'
  BY <1>3 DEF InstallGame, Installing, Unzipping
<1>7. Ready \/ ~u
  BY <1>2
<1>8. Ready => card.base # 0 /\ stamp.client # card.client
  BY DEF InstallGame, Offered
<1>9. PublishInv' /\ CardInv'
  BY <1>1, <1>5 DEF InstallGame, PublishInv, CardInv, Past, CameBack
<1>10. ProgressInv'
  <2>1. at = "base" => card.base # 0
    BY <1>2
  <2>2. at = "full" => card.base = 0 /\ ~u
    BY <1>2, <1>8
  <2>3. at \notin {"unzip base", "unzip"}
    BY <1>2
  <2>4. card' = card
    BY DEF InstallGame
  <2>5. QED
    BY <1>2, <1>3, <2>1, <2>2, <2>3, <2>4 DEF ProgressInv
<1>11. ReadyInv'
  <2>1. ~unstamped /\ Ready => stamp.base # 0
    BY <1>1, <1>6 DEF ReadyInv
  <2>2. install'.at \notin {"stamp client", "stamp base"}
    BY <1>3
  <2>3. stamp.base # 0 \/ stamp.client # NoHash => Ready
    BY <1>1 DEF ReadyInv
  <2>4. QED
    BY <2>1, <2>2, <2>3, <1>3, <1>5, <1>7 DEF ReadyInv, InstallGame
<1>12. BaseInv'
  <2>1. at = "patch" => card.base # 0 /\ ~NeedsBase
    BY <1>2
  <2>2. ASSUME ~Whole, Stamped, stamp.base = base PROVE BaseIs(base) /\ at = "patch" /\ h
    <3>1. base # 0
      BY <1>1, Numbers
    <3>2. Ready /\ card.base # 0 /\ card.base = base
      BY <2>2, <3>1, <1>1, <1>8 DEF ReadyInv, CardInv
    <3>3. ~NeedsBase
      BY <2>2, <3>2 DEF NeedsBase, Whole
    <3>4. QED
      BY <2>2, <3>2, <3>3, <1>1, <1>2 DEF BaseInv
  <2>3. ASSUME Stamped, card.base = base, at = "patch" PROVE BaseIs(base)
    <3>1. Ready /\ ~Whole
      BY <2>1, <2>3, <1>8 DEF NeedsBase, Whole
    <3>2. ~unstamped
      BY <2>3, <3>1 DEF Stamped
    <3>3. stamp.base # 0
      BY <3>1, <3>2, <1>1, <1>6 DEF ReadyInv
    <3>4. stamp.base = base
      BY <2>1, <2>3, <3>3 DEF NeedsBase
    <3>5. QED
      BY <2>3, <3>1, <3>4, <1>1 DEF BaseInv
  <2>4. Whole' = Whole /\ Stamped' = Stamped /\ (BaseIs(base))' = BaseIs(base)
    BY DEF InstallGame, Whole, Stamped, BaseIs, FromBase
  <2>5. (PastBase' <=> at = "patch") /\ install'.at # "unzip base" /\ install'.hashed = h
    BY <1>2, <1>3 DEF PastBase
  <2>6. base' = base /\ stamp' = stamp /\ card' = card
    BY DEF InstallGame
  <2>7. QED
    BY <2>2, <2>3, <2>4, <2>5, <2>6 DEF BaseInv
<1>13. PatchInv'
  BY <1>2, <1>3 DEF PatchInv
<1>14. StampInv'
  <2>1. ASSUME ~CameBack, stamp.client = Revision PROVE FALSE
    <3>1. Ready
      BY <2>1, <1>1, NoHashIsOld DEF ReadyInv
    <3>2. QED
      BY <2>1, <3>1, <1>1, <1>8 DEF CardInv
  <2>2. QED
    BY <2>1, <1>5 DEF StampInv, CameBack, InstallGame
<1>15. OptionsInv'
  BY <1>1, <1>2, <1>3, <1>5, <1>6 DEF OptionsInv, Safe, InstallGame
<1>16. QED
  BY <1>4, <1>9, <1>10, <1>11, <1>12, <1>13, <1>14, <1>15 DEF ClientsInv, FilesInv

LEMMA KeptEntry == ClientTypes => Kept \in Entry
<1> SUFFICES ASSUME ClientTypes PROVE Kept \in Entry
  OBVIOUS
<1>1. disk["options"] \in Entry
  BY DEF ClientTypes, LauncherTypes, Entries
<1>2. QED
  BY <1>1, EntryTypes DEF Kept

\* A download puts nothing on disk; the stamp is not the newest hash, as an install is
\* under way.
LEMMA DownloadBaseKept == ClientsInv /\ DownloadBase => ClientsInv'
<1> SUFFICES ASSUME ClientsInv, DownloadBase PROVE ClientsInv'
  OBVIOUS
<1> USE DEF ServerStill
<1>1. ClientTypes /\ PublishInv /\ CardInv /\ ProgressInv /\ ReadyInv /\ BaseInv /\ PatchInv /\ StampInv /\ OptionsInv
  BY DEF ClientsInv, FilesInv
<1>2. install.at = "base" /\ Installing /\ ~PastBase /\ ~Unzipping
  BY DEF DownloadBase, Installing, PastBase, Unzipping
<1>3. card.base \in 1 .. MaxBases /\ card.base <= base
  <2>1. card.base \in 0 .. MaxBases /\ card.base # 0 /\ card.base <= base
    BY <1>1, <1>2 DEF ProgressInv, PublishInv, ClientTypes, LauncherTypes, Card
  <2>2. QED
    BY <2>1, GameClientsAssumption
<1>4. PICK z \in 1 .. MaxBases :
        /\ card.base <= z /\ z <= base
        /\ cache' = [cache EXCEPT ![card.base] = z]
        /\ Extracts(BaseZip(z), Entries, Kept, "unzip base")
  <2> DEFINE z == IF cache[card.base] # 0 THEN cache[card.base] ELSE base
  <2>1. cache[card.base] \in 0 .. MaxBases /\ base \in 1 .. MaxBases /\ MaxBases \in Nat
    BY <1>1, <1>3, GameClientsAssumption DEF ClientTypes, ServerTypes, LauncherTypes
  <2>2. z \in 1 .. MaxBases
    BY <2>1
  <2>3. card.base <= z /\ z <= base
    BY <1>1, <1>3, <2>1, Numbers DEF PublishInv
  <2>4. cache' = [cache EXCEPT ![card.base] = z] /\ Extracts(BaseZip(z), Entries, Kept, "unzip base")
    BY Zenon DEF DownloadBase
  <2> HIDE DEF z
  <2>5. QED
    BY <2>2, <2>3, <2>4
<1>5. BaseZip(z) \in [Entries -> Entry] /\ Kept \in Entry /\ z \in 0 .. MaxBases
  <2>1. z \in 0 .. MaxBases /\ template \in ClientTemplates
    BY <1>1, GameClientsAssumption DEF ClientTypes, ServerTypes
  <2>2. QED
    BY <2>1, <1>1, ZipTypes, KeptEntry
<1>6. /\ install' \in Install
      /\ install'.at = "unzip base" /\ install'.zip = BaseZip(z) /\ install'.todo = Entries /\ install'.kept = Kept
      /\ install'.updating = install.updating /\ install'.hashed = install.hashed
  <2>1. Entries \in SUBSET Entries /\ "unzip base" \in InstallPlaces
    BY DEF InstallPlaces
  <2>2. QED
    BY <1>1, <1>4, <1>5, <2>1, ExtractsRecord
<1>7. ClientTypes'
  BY <1>1, <1>4, <1>5, <1>6 DEF ClientTypes, ServerTypes, LauncherTypes, DownloadBase
<1>8. Revision' = Revision /\ Ready' = Ready /\ Installing' /\ ~PastBase' /\ Unzipping'
  BY <1>6 DEF DownloadBase, Revision, Ready, Installing, PastBase, Unzipping
<1>9. CardInv'
  BY <1>1, <1>8 DEF DownloadBase, CardInv, CameBack
<1>10. PublishInv'
  <2>1. \A h \in 1 .. MaxBases : cache'[h] # 0 => h <= cache'[h] /\ cache'[h] <= base
    BY <1>1, <1>3, <1>4 DEF PublishInv, ClientTypes, LauncherTypes
  <2>2. QED
    BY <1>1, <2>1 DEF DownloadBase, PublishInv, Past, CameBack
<1>11. ProgressInv'
  BY <1>1, <1>2, <1>4, <1>6 DEF DownloadBase, ProgressInv, Installing
<1>12. ReadyInv'
  BY <1>1, <1>2, <1>6, <1>8 DEF DownloadBase, ReadyInv
<1>13. BaseInv'
  <2>1. ~(~Whole /\ Stamped /\ stamp.base = base)
    BY <1>1, <1>2 DEF BaseInv
  <2>2. Whole' = Whole /\ Stamped' = Stamped
    BY DEF DownloadBase, Whole, Stamped
  <2>3. card.base = base => z = base
    <3>1. z \in Nat /\ base \in Nat
      BY <1>1, GameClientsAssumption, Numbers
    <3>2. card.base <= z /\ z <= base
      BY <1>4
    <3>3. card.base = base => base <= z
      BY <3>2
    <3>4. QED
      BY <3>1, <3>2, <3>3
  <2>4. base' = base /\ stamp' = stamp /\ card' = card
    BY DEF DownloadBase
  <2>5. QED
    BY <2>1, <2>2, <2>3, <2>4, <1>6, <1>8 DEF BaseInv
<1>14. PatchInv'
  BY <1>6 DEF PatchInv
<1>15. StampInv'
  BY <1>1, <1>2, <1>8 DEF StampInv, DownloadBase, CameBack
<1>16. OptionsInv'
  BY <1>1, <1>2, <1>6, <1>8 DEF OptionsInv, Safe, InHand, Kept, DownloadBase
<1>17. QED
  BY <1>7, <1>9, <1>10, <1>11, <1>12, <1>13, <1>14, <1>15, <1>16 DEF ClientsInv, FilesInv

LEMMA DownloadFullKept == ClientsInv /\ DownloadFull => ClientsInv'
<1> SUFFICES ASSUME ClientsInv, DownloadFull PROVE ClientsInv'
  OBVIOUS
<1> USE DEF ServerStill
<1>1. ClientTypes /\ PublishInv /\ CardInv /\ ProgressInv /\ ReadyInv /\ BaseInv /\ PatchInv /\ StampInv /\ OptionsInv
  BY DEF ClientsInv, FilesInv
<1>2. install.at = "full" /\ Installing /\ ~PastBase /\ ~Unzipping
  BY DEF DownloadFull, Installing, PastBase, Unzipping
<1>3. card.base = 0 /\ ~install.updating /\ ~install.hashed
  BY <1>1, <1>2, InstallTypes DEF ProgressInv
<1>4. /\ install' \in Install
      /\ install'.at = "unzip" /\ install'.zip = FullZip(template, base, address) /\ install'.kept = Kept
      /\ install'.updating = install.updating /\ install'.hashed = install.hashed
  <2>1. template \in ClientTemplates /\ base \in 0 .. MaxBases /\ address \in 0 .. 2
    BY <1>1, GameClientsAssumption DEF ClientTypes, ServerTypes
  <2>2. Entries \in SUBSET Entries /\ "unzip" \in InstallPlaces /\ FullZip(template, base, address) \in [Entries -> Entry]
    BY <2>1, ZipTypes DEF InstallPlaces
  <2>3. Extracts(FullZip(template, base, address), Entries, Kept, "unzip")
    BY DEF DownloadFull
  <2>4. QED
    BY <1>1, <2>2, <2>3, KeptEntry, ExtractsRecord
<1>5. ClientTypes'
  BY <1>1, <1>4 DEF ClientTypes, ServerTypes, LauncherTypes, DownloadFull
<1>6. Revision' = Revision /\ Ready' = Ready /\ Installing'
  BY <1>4 DEF DownloadFull, Revision, Ready, Installing
<1>7. PublishInv' /\ CardInv'
  BY <1>1, <1>6 DEF DownloadFull, PublishInv, CardInv, Past, CameBack
<1>8. ProgressInv'
  <2>1. base \in 1 .. MaxBases /\ address \in 1 .. 2
    BY <1>1 DEF ClientTypes, ServerTypes
  <2>2. install'.zip = FullZip(template', base, address)
    BY <1>4 DEF DownloadFull
  <2>3. QED
    BY <1>1, <1>3, <1>4, <2>1, <2>2 DEF DownloadFull, ProgressInv, Installing
<1>9. ReadyInv'
  BY <1>1, <1>2, <1>4, <1>6 DEF DownloadFull, ReadyInv
<1>10. BaseInv'
  <2>1. ~(~Whole /\ Stamped /\ stamp.base = base)
    BY <1>1, <1>2 DEF BaseInv
  <2>2. Whole' = Whole /\ Stamped' = Stamped
    BY DEF DownloadFull, Whole, Stamped
  <2>3. base # 0
    BY <1>1, Numbers
  <2>4. base' = base /\ stamp' = stamp /\ card' = card
    BY DEF DownloadFull
  <2>5. QED
    BY <2>1, <2>2, <2>3, <2>4, <1>3, <1>4 DEF BaseInv
<1>11. PatchInv'
  BY <1>3, <1>4 DEF PatchInv, Newest
<1>12. StampInv'
  BY <1>1, <1>2, <1>6 DEF StampInv, DownloadFull, CameBack
<1>13. OptionsInv'
  <2>1. Unzipping' /\ Safe' = Safe
    BY <1>4 DEF Unzipping, Safe, DownloadFull
  <2>2. ~Safe
    BY <1>1, <1>2, <1>3 DEF OptionsInv
  <2>3. options > 0 => HasOptions(template)
    BY <1>1 DEF OptionsInv
  <2>4. QED
    BY <2>1, <2>2, <2>3 DEF OptionsInv, DownloadFull
<1>14. QED
  BY <1>5, <1>7, <1>8, <1>9, <1>10, <1>11, <1>12, <1>13 DEF ClientsInv, FilesInv

LEMMA DownloadPatchKept == ClientsInv /\ DownloadPatch => ClientsInv'
<1> SUFFICES ASSUME ClientsInv, DownloadPatch PROVE ClientsInv'
  OBVIOUS
<1> USE DEF ServerStill
<1>1. ClientTypes /\ PublishInv /\ CardInv /\ ProgressInv /\ ReadyInv /\ BaseInv /\ PatchInv /\ StampInv /\ OptionsInv
  BY DEF ClientsInv, FilesInv
<1>2. install.at = "patch" /\ Installing /\ PastBase /\ ~Unzipping
  BY DEF DownloadPatch, Installing, PastBase, Unzipping
<1>3. template \in ClientTemplates /\ base \in 1 .. MaxBases /\ base \in 0 .. MaxBases /\ address \in 1 .. 2 /\ address \in 0 .. 2
  BY <1>1, GameClientsAssumption DEF ClientTypes, ServerTypes
<1>4. PICK k \in Entry :
        /\ k = Missing \/ k = Kept
        /\ Extracts(FullZip(template, base, address), PatchHas(template), k, "unzip")
  BY <1>1, KeptEntry, EntryTypes, Zenon DEF DownloadPatch
<1>5. /\ install' \in Install
      /\ install'.at = "unzip" /\ install'.zip = FullZip(template, base, address)
      /\ install'.todo = PatchHas(template) /\ install'.kept = k
      /\ install'.updating = install.updating /\ install'.hashed = install.hashed
  <2>1. PatchHas(template) \in SUBSET Entries /\ "unzip" \in InstallPlaces
        /\ FullZip(template, base, address) \in [Entries -> Entry]
    BY <1>3, ZipTypes, EntrySets DEF InstallPlaces
  <2>2. QED
    BY <1>1, <1>4, <2>1, ExtractsRecord
<1>6. ClientTypes'
  BY <1>1, <1>5 DEF ClientTypes, ServerTypes, LauncherTypes, DownloadPatch
<1>7. Revision' = Revision /\ Ready' = Ready /\ Installing' /\ PastBase' /\ Unzipping'
  BY <1>5 DEF DownloadPatch, Revision, Ready, Installing, PastBase, Unzipping
<1>8. PublishInv' /\ CardInv'
  BY <1>1, <1>7 DEF DownloadPatch, PublishInv, CardInv, Past, CameBack
<1>9. ProgressInv'
  <2>1. install'.zip = FullZip(template', base, address)
    BY <1>5 DEF DownloadPatch
  <2>2. QED
    BY <1>1, <1>2, <1>3, <1>5, <2>1 DEF DownloadPatch, ProgressInv, Installing
<1>10. ReadyInv'
  BY <1>1, <1>2, <1>5, <1>7 DEF DownloadPatch, ReadyInv
<1>11. BaseInv'
  <2>1. Whole' = Whole /\ Stamped' = Stamped /\ (BaseIs(base))' = BaseIs(base)
    BY DEF DownloadPatch, Whole, Stamped, BaseIs, FromBase
  <2>2. base' = base /\ stamp' = stamp /\ card' = card
    BY DEF DownloadPatch
  <2>3. QED
    BY <2>1, <2>2, <1>1, <1>2, <1>5, <1>7 DEF BaseInv
<1>12. PatchInv'
  <2>1. template' = template /\ base' = base /\ address' = address
    BY DEF DownloadPatch
  <2>2. QED
    BY <2>1, <1>5 DEF PatchInv
<1>13. StampInv'
  BY <1>1, <1>2, <1>7 DEF StampInv, DownloadPatch, CameBack
<1>14. OptionsInv'
  <2>1. "options" \notin PatchHas(template)
    BY <1>3, EntrySets
  <2>2. options > 0 => HasOptions(template)
    BY <1>1 DEF OptionsInv
  <2>3. Safe => Ready /\ install.updating /\ disk["options"].saved = options
    BY <1>1, <1>2 DEF OptionsInv
  <2>4. Safe' = Safe /\ disk' = disk /\ options' = options /\ template' = template
    BY DEF Safe, DownloadPatch
  <2>5. Safe => k.saved = options \/ k = Missing
    BY <1>4, <2>2, <2>3 DEF Kept, Safe
  <2>6. Safe => InHand'
    BY <2>1, <2>3, <2>4, <2>5, <1>5 DEF InHand
  <2>7. QED
    BY <2>2, <2>3, <2>4, <2>6, <1>5, <1>7 DEF OptionsInv
<1>15. QED
  BY <1>6, <1>8, <1>9, <1>10, <1>11, <1>12, <1>13, <1>14 DEF ClientsInv, FilesInv

\* An entry that is extracted is there, and is from the zip.
LEMMA UnzipKept == ClientsInv /\ Unzip => ClientsInv'
<1> SUFFICES ASSUME ClientsInv, Unzip PROVE ClientsInv'
  OBVIOUS
<1> USE DEF ServerStill
<1>1. ClientTypes /\ PublishInv /\ CardInv /\ ProgressInv /\ ReadyInv /\ BaseInv /\ PatchInv /\ StampInv /\ OptionsInv
  BY DEF ClientsInv, FilesInv
<1>2. install.at \in {"unzip base", "unzip"} /\ Installing /\ Unzipping /\ install.todo # {}
  BY DEF Unzip, Installing, Unzipping
<1>3. template \in ClientTemplates /\ base \in 1 .. MaxBases
  BY <1>1 DEF ClientTypes, ServerTypes
<1>4. PICK F \in Entries : F = Foremost /\ F \in install.todo
  BY <1>1, <1>2, ForemostIsLeft
<1>5. /\ disk' = [disk EXCEPT ![F] = install.zip[F]]
      /\ install' = [install EXCEPT !.todo = install.todo \ {F}]
  BY <1>4 DEF Unzip
<1>6. /\ install' \in Install
      /\ install'.at = install.at /\ install'.zip = install.zip /\ install'.todo = install.todo \ {F}
      /\ install'.kept = install.kept /\ install'.updating = install.updating /\ install'.hashed = install.hashed
  BY <1>1, <1>5 DEF ClientTypes, LauncherTypes, Install
<1>7. disk' \in [Entries -> Entry] /\ disk'[F] = install.zip[F] /\ \A e \in Entries : e # F => disk'[e] = disk[e]
  BY <1>1, <1>5, InstallTypes DEF ClientTypes, LauncherTypes
<1>8. ClientTypes'
  BY <1>1, <1>6, <1>7 DEF ClientTypes, ServerTypes, LauncherTypes, Unzip
<1>9. disk'[F] # Missing
  <2>1. CASE install.at = "unzip base"
    <3>1. PICK z \in 1 .. MaxBases : install.zip = BaseZip(z)
      BY <1>1, <2>1 DEF ProgressInv
    <3>2. QED
      BY <1>3, <1>7, <3>1, ZipEntries
  <2>2. CASE install.at = "unzip"
    <3>1. PICK z \in 1 .. MaxBases, a \in 1 .. 2 : install.zip = FullZip(template, z, a)
      BY <1>1, <2>2 DEF ProgressInv
    <3>2. QED
      BY <1>3, <1>7, <3>1, ZipEntries
  <2>3. QED
    BY <1>2, <2>1, <2>2
<1>10. template' = template /\ base' = base /\ address' = address /\ stamp' = stamp /\ card' = card /\ cache' = cache
       /\ unstamped' = unstamped /\ options' = options /\ optionsAtRisk' = optionsAtRisk /\ moves' = moves
  BY DEF Unzip
<1>11. Ready => Ready'
  BY <1>3, <1>7, <1>9, <1>10, ReadyStays
<1>12. Revision' = Revision /\ Installing' = Installing /\ PastBase' = PastBase /\ Unzipping' = Unzipping
       /\ Whole' = Whole /\ Stamped' = Stamped /\ Newest' = Newest /\ CameBack' = CameBack /\ Safe' = Safe
  BY <1>6, <1>10 DEF Revision, Installing, PastBase, Unzipping, Whole, Stamped, Newest, CameBack, Safe
<1>13. PublishInv' /\ CardInv'
  BY <1>1, <1>10, <1>12 DEF PublishInv, CardInv, Past
<1>14. ProgressInv'
  BY <1>1, <1>6, <1>10, <1>12 DEF ProgressInv
<1>15. ReadyInv'
  BY <1>1, <1>2, <1>6, <1>10, <1>11, <1>12 DEF ReadyInv
<1>16. BaseInv'
  <2>1. ASSUME install.at = "unzip", install.hashed, BaseIs(base) PROVE (BaseIs(base))'
    <3>1. F \in PatchHas(template)
      BY <1>1, <1>4, <2>1 DEF PatchInv
    <3>2. F \notin FromBase
      BY <3>1 DEF FromBase
    <3>3. FromBase' = FromBase /\ FromBase \subseteq Entries
      BY <1>10 DEF FromBase
    <3>4. QED
      BY <1>7, <1>10, <2>1, <3>2, <3>3 DEF BaseIs
  <2>2. PastBase => install.at = "unzip"
    BY <1>2 DEF PastBase
  <2>3. card.base = base => install.hashed
    BY <1>1, <1>2, Numbers DEF ProgressInv
  <2>4. ASSUME install.at = "unzip base", card.base = base
        PROVE  /\ install'.zip = BaseZip(base)
               /\ \A e \in Entries \ ({"options"} \cup install'.todo) : disk'[e] = Plain(base)
    <3>1. install.zip = BaseZip(base) /\ \A e \in Entries \ ({"options"} \cup install.todo) : disk[e] = Plain(base)
      BY <1>1, <2>4 DEF BaseInv
    <3>2. disk'[F] = Plain(base)
      BY <1>3, <1>7, <3>1, ZipEntries
    <3>3. QED
      BY <1>6, <1>7, <3>1, <3>2
  <2>5. ~Whole /\ Stamped /\ stamp.base = base => BaseIs(base) /\ (Installing => PastBase /\ install.hashed)
    BY <1>1 DEF BaseInv
  <2>6. Stamped /\ card.base = base /\ PastBase => BaseIs(base)
    BY <1>1 DEF BaseInv
  <2>7. QED
    BY <1>2, <1>6, <1>10, <1>12, <2>1, <2>2, <2>3, <2>4, <2>5, <2>6 DEF BaseInv
<1>17. PatchInv'
  <2>1. ASSUME install.at = "unzip", Newest
        PROVE  /\ install'.zip = FullZip(template, base, address)
               /\ \A e \in PatchHas(template) \ install'.todo : Right(e)'
    <3>1. install.zip = FullZip(template, base, address) /\ \A e \in PatchHas(template) \ install.todo : Right(e)
      BY <1>1, <2>1 DEF PatchInv
    <3>2. Right(F)'
      BY <1>7, <1>10, <3>1 DEF Right
    <3>3. \A e \in Entries : e # F => Right(e)' = Right(e)
      BY <1>7, <1>10 DEF Right
    <3>4. QED
      BY <1>3, <1>6, <3>1, <3>2, <3>3, EntrySets
  <2>2. QED
    BY <1>1, <1>2, <1>6, <1>10, <1>12, <2>1 DEF PatchInv
<1>18. StampInv'
  BY <1>1, <1>2, <1>10, <1>12 DEF StampInv
<1>19. OptionsInv'
  <2>1. Safe => InHand
    BY <1>1, <1>2 DEF OptionsInv
  <2>2. Safe => InHand'
    BY <1>4, <1>6, <1>7, <1>10, <2>1 DEF InHand, Entries
  <2>3. QED
    BY <1>1, <1>2, <1>6, <1>10, <1>11, <1>12, <2>2 DEF OptionsInv
<1>20. QED
  BY <1>8, <1>13, <1>14, <1>15, <1>16, <1>17, <1>18, <1>19 DEF ClientsInv, FilesInv

LEMMA UnzippedRecord ==
    ASSUME ClientTypes, NEW n \in InstallPlaces,
           install' = [install EXCEPT !.at = n, !.zip = BaseZip(0), !.kept = Missing]
    PROVE  /\ install' \in Install
           /\ install'.at = n /\ install'.todo = install.todo /\ install'.kept = Missing
           /\ install'.updating = install.updating /\ install'.hashed = install.hashed
<1>1. BaseZip(0) \in [Entries -> Entry] /\ Missing \in Entry
  <2>1. 0 \in 0 .. MaxBases /\ template \in ClientTemplates
    BY GameClientsAssumption DEF ClientTypes, ServerTypes
  <2>2. QED
    BY <2>1, ZipTypes, EntryTypes
<1>2. QED
  BY <1>1 DEF ClientTypes, LauncherTypes, Install

\* The options are where they were, or are put back.
LEMMA PutBack ==
    ASSUME ClientTypes, Safe, InHand, disk' = Restored(disk)
    PROVE  disk'["options"].saved = options
<1>1. disk \in [Entries -> Entry] /\ Missing.saved = 0
  BY DEF ClientTypes, LauncherTypes, Missing
<1>2. install.kept = Missing => disk["options"].saved = options
  BY <1>1 DEF InHand, Safe
<1>3. install.kept # Missing => install.kept.saved = options
  BY DEF InHand
<1>4. QED
  BY <1>1, <1>2, <1>3, RestoredDisk

\* A zip is extracted: its entries are all on disk.
LEMMA ExtractedKept == ClientsInv /\ (BaseUnzipped \/ Unzipped) => ClientsInv'
<1> SUFFICES ASSUME ClientsInv, BaseUnzipped \/ Unzipped PROVE ClientsInv'
  OBVIOUS
<1> USE DEF ServerStill
<1>1. ClientTypes /\ PublishInv /\ CardInv /\ ProgressInv /\ ReadyInv /\ BaseInv /\ PatchInv /\ StampInv /\ OptionsInv
  BY DEF ClientsInv, FilesInv
<1>2. install.at \in {"unzip base", "unzip"} /\ Installing /\ Unzipping /\ install.todo = {}
  BY DEF BaseUnzipped, Unzipped, Installing, Unzipping
<1>3. template \in ClientTemplates /\ base \in 1 .. MaxBases
  BY <1>1 DEF ClientTypes, ServerTypes
<1>4. disk' = Restored(disk) /\ disk' \in [Entries -> Entry] /\ \A e \in Entries \ {"options"} : disk'[e] = disk[e]
  BY <1>1, RestoredDisk DEF BaseUnzipped, Unzipped, ClientTypes, LauncherTypes
<1>5. PICK n \in {"patch", "stamp client"} :
        /\ install' = [install EXCEPT !.at = n, !.zip = BaseZip(0), !.kept = Missing]
        /\ \/ install.at = "unzip base" /\ n = "patch"
           \/ install.at = "unzip" /\ Ready /\ n = "stamp client"
  BY DEF BaseUnzipped, Unzipped
<1>6. /\ install' \in Install
      /\ install'.at = n /\ install'.kept = Missing
      /\ install'.updating = install.updating /\ install'.hashed = install.hashed
  <2>1. n \in InstallPlaces
    BY DEF InstallPlaces
  <2>2. QED
    BY <1>1, <1>5, <2>1, UnzippedRecord
<1>7. template' = template /\ base' = base /\ address' = address /\ stamp' = stamp /\ card' = card /\ cache' = cache
      /\ unstamped' = unstamped /\ options' = options /\ optionsAtRisk' = optionsAtRisk /\ moves' = moves
      /\ order' = order /\ there' = there
  BY DEF BaseUnzipped, Unzipped
<1>8. ClientTypes'
  BY <1>1, <1>4, <1>6, <1>7 DEF ClientTypes, ServerTypes, LauncherTypes
<1>9. Ready' = Ready
  BY <1>3, <1>4, <1>7, ReadySame
<1>10. Revision' = Revision /\ Installing' /\ PastBase' /\ ~Unzipping' /\ Whole' = Whole /\ Stamped' = Stamped
       /\ Newest' = Newest /\ CameBack' = CameBack /\ Safe' = Safe
  BY <1>6, <1>7 DEF Revision, Installing, PastBase, Unzipping, Whole, Stamped, Newest, CameBack, Safe
<1>11. PublishInv' /\ CardInv'
  BY <1>1, <1>7, <1>10 DEF PublishInv, CardInv, Past
<1>12. ProgressInv'
  BY <1>1, <1>2, <1>6, <1>7, <1>10 DEF ProgressInv
<1>13. ReadyInv'
  BY <1>1, <1>2, <1>5, <1>6, <1>7, <1>9, <1>10 DEF ReadyInv
<1>14. BaseInv'
  <2>1. FromBase' = FromBase /\ FromBase \subseteq Entries \ {"options"}
    BY <1>7 DEF FromBase
  <2>2. (BaseIs(base))' = BaseIs(base)
    BY <1>4, <1>7, <2>1 DEF BaseIs
  <2>3. ASSUME Stamped, card.base = base PROVE BaseIs(base)
    <3>1. CASE install.at = "unzip base"
      BY <1>1, <1>2, <2>1, <2>3, <3>1 DEF BaseInv, BaseIs
    <3>2. CASE install.at = "unzip"
      BY <1>1, <2>3, <3>2 DEF BaseInv, PastBase
    <3>3. QED
      BY <1>2, <3>1, <3>2
  <2>4. ~Whole /\ Stamped /\ stamp.base = base => BaseIs(base) /\ (Installing => PastBase /\ install.hashed)
    BY <1>1 DEF BaseInv
  <2>5. QED
    BY <1>2, <1>6, <1>7, <1>10, <2>2, <2>3, <2>4 DEF BaseInv
<1>15. PatchInv'
  <2>1. \A e \in Entries \ {"options"} : Right(e)' = Right(e)
    BY <1>4, <1>7 DEF Right
  <2>2. PatchHas(template) \subseteq Entries \ {"options"}
    BY <1>3, EntrySets
  <2>3. ASSUME n = "stamp client", Newest PROVE \A e \in PatchHas(template) : Right(e)
    BY <1>1, <1>2, <1>5, <2>3 DEF PatchInv
  <2>4. \A e \in PatchHas(template') : Newest' /\ n = "stamp client" => Right(e)'
    BY <1>7, <1>10, <2>1, <2>2, <2>3
  <2>5. QED
    BY <1>6, <2>4 DEF PatchInv
<1>16. StampInv'
  BY <1>1, <1>2, <1>7, <1>10 DEF StampInv
<1>17. OptionsInv'
  <2>1. Safe => disk'["options"].saved = options
    BY <1>1, <1>2, <1>4, PutBack DEF OptionsInv
  <2>2. QED
    BY <1>1, <1>2, <1>6, <1>7, <1>9, <1>10, <2>1 DEF OptionsInv
<1>18. QED
  BY <1>8, <1>11, <1>12, <1>13, <1>14, <1>15, <1>16, <1>17 DEF ClientsInv, FilesInv

\* The base and the patch that were installed make the whole that is served.
LEMMA StampClientKept == ClientsInv /\ StampClient => ClientsInv'
<1> SUFFICES ASSUME ClientsInv, StampClient PROVE ClientsInv'
  OBVIOUS
<1> USE DEF ServerStill
<1>1. ClientTypes /\ PublishInv /\ CardInv /\ ProgressInv /\ ReadyInv /\ BaseInv /\ PatchInv /\ StampInv /\ OptionsInv
  BY DEF ClientsInv, FilesInv
<1>2. install.at = "stamp client" /\ Installing /\ PastBase /\ ~Unzipping
  BY DEF StampClient, Installing, PastBase, Unzipping
<1>3. template \in ClientTemplates /\ base \in 1 .. MaxBases /\ address \in 1 .. 2
  BY <1>1 DEF ClientTypes, ServerTypes
<1>4. /\ stamp' \in Stamp /\ stamp'.base = stamp.base
      /\ install.hashed => stamp'.client = card.client
      /\ ~install.hashed => stamp' = stamp
  BY <1>1, Numbers DEF StampClient, ClientTypes, LauncherTypes, Stamp
<1>5. /\ install' \in Install
      /\ install'.at = "stamp base" /\ install'.todo = install.todo /\ install'.kept = install.kept
      /\ install'.updating = install.updating /\ install'.hashed = install.hashed
  <2>1. install' = [install EXCEPT !.at = "stamp base"] /\ "stamp base" \in InstallPlaces
    BY DEF StampClient, InstallPlaces
  <2>2. QED
    BY <1>1, <2>1 DEF ClientTypes, LauncherTypes, Install
<1>6. template' = template /\ base' = base /\ address' = address /\ card' = card /\ cache' = cache /\ disk' = disk
      /\ unstamped' = unstamped /\ options' = options /\ optionsAtRisk' = optionsAtRisk /\ moves' = moves
      /\ order' = order /\ there' = there
  BY DEF StampClient
<1>7. ClientTypes'
  BY <1>1, <1>4, <1>5, <1>6 DEF ClientTypes, ServerTypes, LauncherTypes
<1>8. Revision' = Revision /\ Ready' = Ready /\ Installing' /\ PastBase' /\ ~Unzipping' /\ Whole' = Whole
      /\ Stamped' = Stamped /\ Newest' = Newest /\ CameBack' = CameBack /\ Safe' = Safe
  BY <1>5, <1>6 DEF Revision, Ready, Installing, PastBase, Unzipping, Whole, Stamped, Newest, CameBack, Safe
<1>9. \A e \in Entries : Right(e)' = Right(e)
  BY <1>6 DEF Right
<1>10. PublishInv'
  BY <1>1, <1>4, <1>6, <1>8 DEF PublishInv, Past
<1>11. install.hashed <=> card.base # 0
  BY <1>1, <1>2 DEF ProgressInv
<1>12. CardInv'
  BY <1>1, <1>4, <1>6, <1>8, <1>11 DEF CardInv
<1>13. ProgressInv'
  BY <1>1, <1>2, <1>5, <1>6, <1>8 DEF ProgressInv
<1>14. ReadyInv'
  BY <1>1, <1>2, <1>4, <1>5, <1>6, <1>8 DEF ReadyInv
<1>15. BaseInv'
  <2>1. (BaseIs(base))' = BaseIs(base)
    BY <1>6 DEF BaseIs, FromBase
  <2>2. QED
    BY <1>1, <1>2, <1>4, <1>5, <1>6, <1>8, <2>1 DEF BaseInv
<1>16. PatchInv'
  BY <1>1, <1>2, <1>3, <1>5, <1>6, <1>8, <1>9, EntrySets DEF PatchInv
<1>17. StampInv'
  <2>1. ASSUME ~CameBack, stamp'.client = Revision, Stamped, NEW e \in Entries \ {"options"} PROVE Right(e)
    <3>1. install.hashed
      BY <1>1, <1>2, <1>4, <2>1 DEF StampInv
    <3>2. card.client = Revision /\ Newest
      BY <1>4, <2>1, <3>1 DEF Newest
    <3>3. CASE e \in PatchHas(template)
      BY <1>1, <1>2, <3>2, <3>3 DEF PatchInv
    <3>4. CASE e \notin PatchHas(template)
      <4>1. card.base = base
        BY <1>1, <1>11, <3>1, <3>2, RevisionFields DEF PublishInv
      <4>2. disk[e] = Plain(base)
        BY <1>1, <1>2, <2>1, <3>4, <4>1 DEF BaseInv, BaseIs, FromBase
      <4>3. QED
        BY <1>3, <3>4, <4>2, ZipEntries DEF Right
    <3>5. QED
      BY <3>3, <3>4
  <2>2. QED
    BY <1>5, <1>6, <1>8, <1>9, <2>1 DEF StampInv
<1>18. OptionsInv'
  BY <1>1, <1>2, <1>5, <1>6, <1>8 DEF OptionsInv
<1>19. QED
  BY <1>7, <1>10, <1>12, <1>13, <1>14, <1>15, <1>16, <1>17, <1>18 DEF ClientsInv, FilesInv

LEMMA StampBaseKept == ClientsInv /\ StampBase => ClientsInv'
<1> SUFFICES ASSUME ClientsInv, StampBase PROVE ClientsInv'
  OBVIOUS
<1> USE DEF ServerStill
<1>1. ClientTypes /\ PublishInv /\ CardInv /\ ProgressInv /\ ReadyInv /\ BaseInv /\ PatchInv /\ StampInv /\ OptionsInv
  BY DEF ClientsInv, FilesInv
<1>2. install.at = "stamp base" /\ Installing /\ PastBase /\ ~Unzipping
  BY DEF StampBase, Installing, PastBase, Unzipping
<1>3. /\ stamp' \in Stamp /\ stamp'.client = stamp.client
      /\ install.hashed => stamp'.base = card.base
      /\ ~install.hashed => stamp' = stamp
  <2>1. card.base \in 0 .. MaxBases
    BY <1>1 DEF ClientTypes, LauncherTypes, Card
  <2>2. QED
    BY <1>1, <2>1 DEF StampBase, ClientTypes, LauncherTypes, Stamp
<1>4. install' = NotInstalling /\ install' \in Install /\ install'.at = "idle" /\ install'.kept = Missing
  BY NotInstallingRecord DEF StampBase
<1>5. template' = template /\ base' = base /\ address' = address /\ card' = card /\ cache' = cache /\ disk' = disk
      /\ options' = options /\ optionsAtRisk' = optionsAtRisk /\ moves' = moves
      /\ order' = order /\ there' = there
  BY DEF StampBase
<1>6. unstamped' \in BOOLEAN /\ (unstamped' <=> unstamped \/ ~install.hashed)
  BY <1>1, InstallTypes DEF StampBase, ClientTypes, LauncherTypes
<1>7. ClientTypes'
  BY <1>1, <1>3, <1>4, <1>5, <1>6 DEF ClientTypes, ServerTypes, LauncherTypes
<1>8. Revision' = Revision /\ Ready' = Ready /\ ~Installing' /\ ~PastBase' /\ ~Unzipping' /\ Whole' = Whole
      /\ CameBack' = CameBack /\ Safe' = Safe
  BY <1>4, <1>5 DEF Revision, Ready, Installing, PastBase, Unzipping, Whole, CameBack, Safe
<1>9. \A e \in Entries : Right(e)' = Right(e)
  BY <1>5 DEF Right
<1>10. install.hashed <=> card.base # 0
  BY <1>1, <1>2 DEF ProgressInv
<1>11. PublishInv'
  BY <1>1, <1>3, <1>5, <1>8 DEF PublishInv, Past
<1>12. CardInv'
  BY <1>1, <1>3, <1>5, <1>8, <1>10 DEF CardInv
<1>13. ProgressInv'
  BY <1>4, <1>8 DEF ProgressInv
<1>14. ReadyInv'
  BY <1>1, <1>2, <1>3, <1>4, <1>6, <1>8, <1>10 DEF ReadyInv
<1>15. BaseInv'
  <2>1. (BaseIs(base))' = BaseIs(base)
    BY <1>5 DEF BaseIs, FromBase
  <2>2. ASSUME ~Whole, Stamped', stamp'.base = base PROVE BaseIs(base)
    <3>1. ~unstamped' /\ ~unstamped /\ install.hashed
      BY <1>6, <1>8, <2>2 DEF Stamped
    <3>2. QED
      BY <1>1, <1>2, <1>3, <2>2, <3>1 DEF BaseInv, Stamped
  <2>3. QED
    BY <1>4, <1>5, <1>8, <2>1, <2>2 DEF BaseInv
<1>16. PatchInv'
  BY <1>4 DEF PatchInv
<1>17. StampInv'
  <2>1. Stamped' => Stamped
    BY <1>6, <1>8 DEF Stamped
  <2>2. QED
    BY <1>1, <1>3, <1>8, <1>9, <2>1 DEF StampInv
<1>18. OptionsInv'
  BY <1>1, <1>2, <1>5, <1>8 DEF OptionsInv
<1>19. QED
  BY <1>7, <1>11, <1>12, <1>13, <1>14, <1>15, <1>16, <1>17, <1>18 DEF ClientsInv, FilesInv

\* An install ends early: at most the entry that was being written is lost.
LEMMA TornDisk ==
    ASSUME ClientTypes, NEW d,
           \/ d = disk
           \/ Unzipping /\ install.todo # {} /\ d = [disk EXCEPT ![Foremost] = Torn]
    PROVE  /\ d \in [Entries -> Entry]
           /\ \A e \in Entries : \/ d[e] = disk[e]
                                 \/ d[e] = Torn /\ Unzipping /\ e \in install.todo
<1>1. CASE d = disk
  BY <1>1 DEF ClientTypes, LauncherTypes
<1>2. CASE Unzipping /\ install.todo # {} /\ d = [disk EXCEPT ![Foremost] = Torn]
  <2>1. PICK F \in Entries : F = Foremost /\ F \in install.todo
    BY <1>2, ForemostIsLeft
  <2>2. d = [disk EXCEPT ![F] = Torn]
    BY <1>2, <2>1
  <2>3. QED
    BY <1>2, <2>1, <2>2, EntryTypes DEF ClientTypes, LauncherTypes
<1>3. QED
  BY <1>1, <1>2

LEMMA EndsEarly ==
    ASSUME ClientsInv, Installing, install' = NotInstalling,
           disk' \in [Entries -> Entry],
           \A e \in Entries \ {"options"} : \/ disk'[e] = disk[e]
                                            \/ disk'[e] = Torn /\ Unzipping /\ e \in install.todo,
           card' = card \/ card' = NoCard,
           unstamped' = (unstamped \/ ~install.updating),
           optionsAtRisk' \in BOOLEAN,
           Safe' => Safe /\ disk'["options"].saved = options,
           ServerStill, UNCHANGED <<stamp, cache, options>>
    PROVE  ClientsInv'
<1> USE DEF ServerStill
<1>1. ClientTypes /\ PublishInv /\ CardInv /\ ProgressInv /\ ReadyInv /\ BaseInv /\ PatchInv /\ StampInv /\ OptionsInv
  BY DEF ClientsInv, FilesInv
<1>2. template \in ClientTemplates
  BY <1>1 DEF ClientTypes, ServerTypes
<1>3. install' \in Install /\ install'.at = "idle" /\ install'.kept = Missing
  BY NotInstallingRecord
<1>4. NoCard.client = NoHash /\ NoCard.base = 0 /\ NoCard \in Card
  <2>1. NoHash \in Hash /\ 0 \in 0 .. MaxBases
    BY <1>1, NoHashIsOld, GameClientsAssumption
  <2>2. QED
    BY <2>1 DEF NoCard, Card
<1>5. unstamped' \in BOOLEAN /\ (unstamped' <=> unstamped \/ ~install.updating)
  BY <1>1, InstallTypes DEF ClientTypes, LauncherTypes
<1>6. ClientTypes'
  BY <1>1, <1>3, <1>4, <1>5 DEF ClientTypes, ServerTypes, LauncherTypes
<1>7. Ready => Ready'
  <2>1. \A e \in Entries \ {"options"} : disk[e] # Missing => disk'[e] # Missing
    BY NotMissing
  <2>2. QED
    BY <1>2, <2>1, ReadyStays
<1>8. Revision' = Revision /\ ~Installing' /\ ~PastBase' /\ ~Unzipping' /\ Whole' = Whole /\ CameBack' = CameBack
  BY <1>3 DEF Revision, Installing, PastBase, Unzipping, Whole, CameBack
<1>9. Stamped' => Stamped
  BY <1>5, <1>8 DEF Stamped
<1>10. PublishInv'
  <2>1. \/ card'.base = card.base /\ card'.client = card.client
        \/ card'.base = 0 /\ card'.client = NoHash
    BY <1>4
  <2>2. Past(NoHash)
    BY <1>1, Numbers DEF Past, NoHash
  <2>3. QED
    BY <1>1, <1>8, <2>1, <2>2, Numbers DEF PublishInv, Past
<1>11. CardInv'
  BY <1>1, <1>4, <1>8 DEF CardInv
<1>12. ProgressInv'
  BY <1>3, <1>8 DEF ProgressInv
<1>13. ReadyInv'
  <2>1. ~unstamped' => ~unstamped /\ install.updating /\ Ready
    BY <1>1, <1>5 DEF ReadyInv
  <2>2. ~unstamped' => stamp.base # 0
    BY <1>1, <2>1 DEF ReadyInv
  <2>3. QED
    BY <1>1, <1>3, <1>7, <1>8, <2>2 DEF ReadyInv
<1>14. BaseInv'
  <2>1. ASSUME ~Whole, Stamped, stamp.base = base PROVE (BaseIs(base))'
    <3>1. BaseIs(base) /\ PastBase /\ install.hashed
      BY <1>1, <2>1 DEF BaseInv
    <3>2. Unzipping => install.todo \subseteq PatchHas(template)
      BY <1>1, <3>1 DEF PatchInv, PastBase, Unzipping
    <3>3. \A e \in FromBase : disk'[e] = disk[e]
      BY <3>2 DEF FromBase
    <3>4. FromBase' = FromBase
      BY DEF FromBase
    <3>5. QED
      BY <3>1, <3>3, <3>4 DEF BaseIs
  <2>2. QED
    BY <1>3, <1>8, <1>9, <2>1 DEF BaseInv
<1>15. PatchInv'
  BY <1>3 DEF PatchInv
<1>16. StampInv'
  <2>1. ASSUME ~CameBack, stamp.client = Revision PROVE \A e \in Entries \ {"options"} : Right(e)' = Right(e)
    <3>1. ~Unzipping
      BY <1>1, <2>1 DEF StampInv, Unzipping
    <3>2. QED
      BY <3>1 DEF Right
  <2>2. QED
    BY <1>1, <1>8, <1>9, <2>1 DEF StampInv
<1>17. OptionsInv'
  BY <1>1, <1>7, <1>8 DEF OptionsInv, Safe
<1>18. QED
  BY <1>6, <1>10, <1>11, <1>12, <1>13, <1>14, <1>15, <1>16, <1>17 DEF ClientsInv, FilesInv

LEMMA BreaksOffKept == ClientsInv /\ BreaksOff => ClientsInv'
<1> SUFFICES ASSUME ClientsInv, BreaksOff PROVE ClientsInv'
  OBVIOUS
<1>1. ClientTypes /\ OptionsInv
  BY DEF ClientsInv
<1>2. PICK d : /\ \/ d = disk
                  \/ Unzipping /\ install.todo # {} /\ d = [disk EXCEPT ![Foremost] = Torn]
               /\ disk' = Restored(d)
  BY Zenon DEF BreaksOff
<1>3. /\ d \in [Entries -> Entry]
      /\ \A e \in Entries : \/ d[e] = disk[e]
                            \/ d[e] = Torn /\ Unzipping /\ e \in install.todo
  BY <1>1, <1>2, TornDisk
<1>4. /\ disk' \in [Entries -> Entry]
      /\ \A e \in Entries \ {"options"} : disk'[e] = d[e]
      /\ install.kept # Missing => disk'["options"] = install.kept
      /\ install.kept = Missing => disk' = d
  BY <1>1, <1>2, <1>3, RestoredDisk
<1>5. Installing /\ install' = NotInstalling /\ card' = card /\ unstamped' = (unstamped \/ ~install.updating)
      /\ optionsAtRisk' = optionsAtRisk /\ ServerStill /\ UNCHANGED <<stamp, cache, options>>
  BY DEF BreaksOff
<1>6. optionsAtRisk' \in BOOLEAN
  BY <1>1, <1>5 DEF ClientTypes, LauncherTypes
<1>7. ASSUME Safe' PROVE Safe /\ disk'["options"].saved = options
  <2>1. Safe /\ options # 0 /\ Missing.saved = 0
    BY <1>5, <1>7 DEF Safe, Missing
  <2>2. "options" \in Entries
    BY DEF Entries
  <2>3. CASE Unzipping
    <3>1. InHand
      BY <1>1, <2>1, <2>3 DEF OptionsInv
    <3>2. QED
      BY <1>3, <1>4, <2>1, <2>2, <3>1 DEF InHand
  <2>4. CASE ~Unzipping
    BY <1>1, <1>3, <1>4, <1>5, <2>1, <2>2, <2>4 DEF OptionsInv
  <2>5. QED
    BY <2>1, <2>3, <2>4
<1>8. \A e \in Entries \ {"options"} : \/ disk'[e] = disk[e]
                                       \/ disk'[e] = Torn /\ Unzipping /\ e \in install.todo
  BY <1>3, <1>4
<1>9. QED
  BY <1>4, <1>5, <1>6, <1>7, <1>8, EndsEarly

LEMMA KilledKept == ClientsInv /\ Killed => ClientsInv'
<1> SUFFICES ASSUME ClientsInv, Killed PROVE ClientsInv'
  OBVIOUS
<1>1. ClientTypes /\ OptionsInv
  BY DEF ClientsInv
<1>2. \/ disk' = disk
      \/ Unzipping /\ install.todo # {} /\ disk' = [disk EXCEPT ![Foremost] = Torn]
  BY DEF Killed
<1>3. /\ disk' \in [Entries -> Entry]
      /\ \A e \in Entries : \/ disk'[e] = disk[e]
                            \/ disk'[e] = Torn /\ Unzipping /\ e \in install.todo
  BY <1>1, <1>2, TornDisk
<1>4. Installing /\ install' = NotInstalling /\ card' = NoCard /\ unstamped' = (unstamped \/ ~install.updating)
      /\ optionsAtRisk' = (optionsAtRisk \/ Unzipping) /\ ServerStill /\ UNCHANGED <<stamp, cache, options>>
  BY DEF Killed
<1>5. optionsAtRisk' \in BOOLEAN
  BY <1>1, <1>4 DEF ClientTypes, LauncherTypes, Unzipping
<1>6. ASSUME Safe' PROVE Safe /\ disk'["options"].saved = options
  <2>1. Safe /\ ~Unzipping
    BY <1>4, <1>6 DEF Safe
  <2>2. disk' = disk
    BY <1>2, <2>1
  <2>3. QED
    BY <1>1, <2>1, <2>2 DEF OptionsInv
<1>7. \A e \in Entries \ {"options"} : \/ disk'[e] = disk[e]
                                       \/ disk'[e] = Torn /\ Unzipping /\ e \in install.todo
  BY <1>3
<1>8. QED
  BY <1>3, <1>4, <1>5, <1>6, <1>7, EndsEarly

\* The dialog changes the options only.
LEMMA SaveKept == ClientsInv /\ SaveOptions => ClientsInv'
<1> SUFFICES ASSUME ClientsInv, SaveOptions PROVE ClientsInv'
  OBVIOUS
<1> USE DEF ServerStill
<1>1. ClientTypes /\ PublishInv /\ CardInv /\ ProgressInv /\ ReadyInv /\ BaseInv /\ PatchInv /\ StampInv /\ OptionsInv
  BY DEF ClientsInv, FilesInv
<1>2. template \in ClientTemplates /\ MaxOptions \in Nat /\ "options" \in Entries
  BY <1>1, GameClientsAssumption DEF ClientTypes, ServerTypes, Entries
<1>3. options' = options + 1 /\ options \in Nat /\ options + 1 \in 0 .. MaxOptions /\ options + 1 \in 0 .. MaxOptions + 1
  BY <1>1, <1>2 DEF SaveOptions, ClientTypes, LauncherTypes
<1>4. PICK o \in Entry : o = [disk["options"] EXCEPT !.saved = options + 1]
  <2>1. disk["options"] \in Entry
    BY <1>1, <1>2 DEF ClientTypes, LauncherTypes
  <2>2. [disk["options"] EXCEPT !.saved = options + 1] \in Entry
    BY <1>3, <2>1 DEF Entry
  <2>3. QED
    BY <2>2
<1>5. o.saved = options + 1
  <2>1. disk["options"] \in Entry
    BY <1>1, <1>2 DEF ClientTypes, LauncherTypes
  <2>2. QED
    BY <1>4, <2>1 DEF Entry
<1>6. disk' = [disk EXCEPT !["options"] = o]
  BY <1>4 DEF SaveOptions
<1>7. disk' \in [Entries -> Entry] /\ disk'["options"] = o /\ \A e \in Entries \ {"options"} : disk'[e] = disk[e]
  BY <1>1, <1>2, <1>6 DEF ClientTypes, LauncherTypes
<1>8. template' = template /\ base' = base /\ address' = address /\ stamp' = stamp /\ card' = card /\ cache' = cache
      /\ unstamped' = unstamped /\ install' = install /\ moves' = moves /\ order' = order /\ there' = there
  BY DEF SaveOptions
<1>9. optionsAtRisk' \in BOOLEAN /\ (~optionsAtRisk' => ~Installing /\ Ready)
  BY <1>1 DEF SaveOptions, ClientTypes, LauncherTypes, Ready, Installing
<1>10. ClientTypes'
  BY <1>1, <1>3, <1>7, <1>8, <1>9 DEF ClientTypes, ServerTypes, LauncherTypes
<1>11. Ready' = Ready
  BY <1>2, <1>7, <1>8, ReadySame
<1>12. Revision' = Revision /\ Installing' = Installing /\ PastBase' = PastBase /\ Unzipping' = Unzipping
       /\ Whole' = Whole /\ Stamped' = Stamped /\ Newest' = Newest /\ CameBack' = CameBack
  BY <1>8 DEF Revision, Installing, PastBase, Unzipping, Whole, Stamped, Newest, CameBack
<1>13. \A e \in Entries \ {"options"} : Right(e)' = Right(e)
  BY <1>7, <1>8 DEF Right
<1>14. PublishInv' /\ CardInv' /\ ProgressInv' /\ ReadyInv'
  <2>1. PublishInv' /\ CardInv'
    BY <1>1, <1>8, <1>12 DEF PublishInv, CardInv, Past
  <2>2. ProgressInv'
    BY <1>1, <1>8, <1>12 DEF ProgressInv
  <2>3. ReadyInv'
    BY <1>1, <1>8, <1>11, <1>12 DEF ReadyInv
  <2>4. QED
    BY <2>1, <2>2, <2>3
<1>15. BaseInv'
  <2>1. (BaseIs(base))' = BaseIs(base)
    BY <1>7, <1>8 DEF BaseIs, FromBase
  <2>2. \A e \in Entries \ ({"options"} \cup install.todo) : disk'[e] = disk[e]
    BY <1>7
  <2>3. QED
    BY <1>1, <1>8, <1>12, <2>1, <2>2 DEF BaseInv
<1>16. PatchInv'
  <2>1. PatchHas(template) \subseteq Entries \ {"options"}
    BY <1>2, EntrySets
  <2>2. QED
    BY <1>1, <1>8, <1>12, <1>13, <2>1 DEF PatchInv
<1>17. StampInv'
  BY <1>1, <1>8, <1>12, <1>13 DEF StampInv
<1>18. OptionsInv'
  <2>1. HasOptions(template)
    BY DEF SaveOptions
  <2>2. Safe' => ~Installing /\ Ready
    BY <1>9 DEF Safe
  <2>3. Unzipping => Installing
    BY DEF Unzipping, Installing
  <2>4. disk'["options"].saved = options'
    BY <1>3, <1>5, <1>7
  <2>5. QED
    BY <1>1, <1>8, <1>11, <1>12, <2>1, <2>2, <2>3, <2>4 DEF OptionsInv
<1>19. QED
  BY <1>10, <1>14, <1>15, <1>16, <1>17, <1>18 DEF ClientsInv, FilesInv

LEMMA ClientsInitInv == ClientsInit => ClientsInv
<1> SUFFICES ASSUME ClientsInit PROVE ClientsInv
  OBVIOUS
<1> USE DEF ClientsInit
<1>1. MaxBases \in Nat \ {0} /\ MaxMoves \in Nat /\ MaxOptions \in Nat
  BY GameClientsAssumption
<1>2. 1 \in 1 .. MaxBases /\ 0 \in 0 .. MaxBases /\ 0 \in 0 .. 2 /\ 0 \in 0 .. MaxMoves /\ 0 \in 0 .. MaxOptions
  BY <1>1
<1>3. NoHash \in Hash /\ NoHash.zip = 0 /\ NoHash.address = 0
  BY <1>2 DEF NoHash, Hash
<1>4. NoCard \in Card /\ NoCard.client = NoHash /\ NoCard.base = 0
  BY <1>2, <1>3 DEF NoCard, Card
<1>5. stamp \in Stamp /\ stamp.client = NoHash /\ stamp.base = 0
  BY <1>2, <1>3 DEF Stamp
<1>6. install \in Install /\ install.at = "idle" /\ install.kept = Missing
  BY NotInstallingRecord
<1>7. disk \in [Entries -> Entry] /\ cache \in [1 .. MaxBases -> 0 .. MaxBases]
  BY <1>2, EntryTypes
<1>8. ClientTypes
  <2>1. ServerTypes
    BY <1>2 DEF ServerTypes
  <2>2. LauncherTypes
    BY <1>2, <1>4, <1>5, <1>6, <1>7 DEF LauncherTypes
  <2>3. QED
    BY <2>1, <2>2 DEF ClientTypes
<1>9. ~Installing /\ ~PastBase /\ ~Unzipping /\ ~Safe
  BY <1>6 DEF Installing, PastBase, Unzipping, Safe
<1>10. ~Ready
  <2>1. "exe" \in Required(template) /\ "exe" \in Entries
    BY DEF Required, Entries
  <2>2. QED
    BY <2>1 DEF Ready
<1>11. Revision # NoHash
  BY <1>8, NoHashIsOld
<1>12. PublishInv /\ CardInv
  BY <1>3, <1>4, <1>5 DEF PublishInv, CardInv, Past, CameBack
<1>13. ProgressInv /\ ReadyInv
  BY <1>5, <1>6, <1>9, <1>10 DEF ProgressInv, ReadyInv
<1>14. BaseInv /\ PatchInv /\ StampInv
  BY <1>4, <1>5, <1>6, <1>9, <1>11 DEF BaseInv, PatchInv, StampInv
<1>15. OptionsInv
  BY <1>9 DEF OptionsInv
<1>16. QED
  BY <1>8, <1>12, <1>13, <1>14, <1>15 DEF ClientsInv, FilesInv

LEMMA ClientsNextInv == ClientsInv /\ [ClientsNext]_clientVars => ClientsInv'
<1> SUFFICES ASSUME ClientsInv, [ClientsNext]_clientVars PROVE ClientsInv'
  OBVIOUS
<1>1. CASE UNCHANGED clientVars
  <2>1. UNCHANGED <<template, order, base, address, moves>> /\ LauncherStill /\ there' = there
    BY <1>1 DEF clientVars, LauncherStill
  <2>2. there' \in BOOLEAN
    BY <2>1 DEF ClientsInv, ClientTypes, ServerTypes
  <2>3. QED
    BY <2>1, <2>2, StillKept
<1>2. CASE ClientsNext
  BY <1>2, PublishesKept, GetKept, InstallKept, DownloadBaseKept, DownloadFullKept, DownloadPatchKept, UnzipKept,
     ExtractedKept, StampClientKept, StampBaseKept, BreaksOffKept, KilledKept, SaveKept DEF ClientsNext, Installs
<1>3. QED
  BY <1>1, <1>2

LEMMA ClientsInvTypes == ClientsInv => ClientsTypeOK
<1> SUFFICES ASSUME ClientsInv PROVE ClientsTypeOK
  OBVIOUS
<1>1. ClientTypes
  BY DEF ClientsInv
<1>2. QED
  BY <1>1, InstallTypes DEF ClientTypes, ServerTypes, LauncherTypes, Stamp, ClientsTypeOK

LEMMA ClientsInvTells == ClientsInv => StampTellsFiles
BY DEF ClientsInv, FilesInv, StampInv, StampTellsFiles, Stamped, Whole, UpdatesWhole, Right

LEMMA ClientsInvKeeps == ClientsInv => OptionsSurvive
<1> SUFFICES ASSUME ClientsInv, ~Installing, options > 0, ~optionsAtRisk PROVE disk["options"].saved = options
  BY DEF OptionsSurvive
<1>1. ~Unzipping /\ Safe
  BY DEF Unzipping, Installing, Safe
<1>2. QED
  BY <1>1 DEF ClientsInv, OptionsInv

LEMMA ClientsInvariant == ClientsSpec => []ClientsInv
<1>1. QED
  BY ClientsInitInv, ClientsNextInv, PTL DEF ClientsSpec

\* The launcher's state keeps its shape: what is on disk is what some zip had, with
\* options that were saved, or what an install cut off.
THEOREM ClientsTyped == ClientsSpec => []ClientsTypeOK
BY ClientsInvariant, ClientsInvTypes, PTL

\* Whenever the stamp is the hash the catalog has, so that no update is offered, every
\* entry on disk is the one the engine serves: however many zips were published and
\* addresses changed, whatever installs were broken off or killed at any entry, in
\* whatever order the zips have their entries, as long as no address came back.
THEOREM StampTells == ClientsSpec => []StampTellsFiles
BY ClientsInvariant, ClientsInvTells, PTL

\* The options a player saved outside installs are on disk whenever none is under way:
\* they outlive any number of updates, also those that fail.
THEOREM OptionsKept == ClientsSpec => []OptionsSurvive
BY ClientsInvariant, ClientsInvKeeps, PTL

-----------------------------------------------------------------------------
(* Their composition *)

\* A behaviour of the three together is a behaviour of each, whichever is looked at.
LEMMA EachIsIn == Spec => PortsSpec /\ HostSpec /\ ClientsSpec
<1>1. Init => PortsInit /\ HostInit /\ ClientsInit
  BY DEF Init
<1>2. [Next]_hosts => [PortsNext]_portVars /\ [HostNext]_hostVars /\ [ClientsNext]_clientVars
  <2>1. Next => [PortsNext]_portVars /\ [HostNext]_hostVars /\ [ClientsNext]_clientVars
    BY Zenon DEF Next, PortsStill, HostStill, ClientsStill
  <2>2. UNCHANGED hosts => UNCHANGED portVars /\ UNCHANGED hostVars /\ UNCHANGED clientVars
    BY Zenon DEF hosts
  <2>3. QED
    BY <2>1, <2>2
<1>3. QED
  BY <1>1, <1>2, PTL DEF Spec, PortsSpec, HostSpec, ClientsSpec

\* Ports, the companion and the clients keep their types together.
THEOREM HostsTyped == Spec => []HostsTypeOK
<1>1. PortsTypeOK /\ HostTypeOK /\ ClientsTypeOK => HostsTypeOK
  BY DEF HostsTypeOK
<1>2. QED
  BY <1>1, EachIsIn, PortsTyped, HostTyped, ClientsTyped, PTL
=============================================================================
