------------------------- MODULE AuthSessionsProofs -------------------------
(***************************************************************************)
(* What AuthSessions guarantees for every number of requests, accounts,    *)
(* tokens and clock ticks.                                                 *)
(***************************************************************************)
EXTENDS AuthSessions, TLAPS

USE DEF Serial, Time, Working, Refreshing, LoggingOut, LoggingIn, Registering

-----------------------------------------------------------------------------
(* Type correctness *)

LEMMA TypeInit == Init => TypeOK
BY BoundsAssumption, LifeAssumption
   DEF Init, TypeOK, NoRow, NoToken, Row, Token, Pc, Answer

LEMMA ReceiveType ==
    ASSUME TypeOK, NEW r \in Req, NEW first \in Pc, NEW t \in Token,
           NEW u \in User \cup {None}, Receive(r, first, t, u)
    PROVE  /\ received' \in Serial
           /\ pc' \in [Req -> Pc]
           /\ serial' \in [Req -> Serial]
           /\ tok' \in [Req -> Token]
           /\ who' \in [Req -> User \cup {None}]
BY BoundsAssumption DEF TypeOK, Receive, Goto

LEMMA CheckType ==
    ASSUME TypeOK, NEW r \in Req, NEW from, NEW to \in Pc,
           NEW refusal \in Answer, NEW ok, Check(r, from, ok, to, refusal)
    PROVE  pc' \in [Req -> Pc] /\ answer' \in [Req -> Answer]
BY DEF TypeOK, Check, Goto, Reply, Pc

LEMMA TypeStep == TypeOK /\ [Next]_vars => TypeOK'
<1> SUFFICES ASSUME TypeOK, [Next]_vars PROVE TypeOK'
  OBVIOUS
<1> USE BoundsAssumption, LifeAssumption
<1>a. clock + RefreshLife \in Time
  BY DEF TypeOK
<1>1. ASSUME NEW r \in Req, NEW first \in Pc, ReceiveToken(r, first)
      PROVE TypeOK'
  <2>1. PICK t \in delivered :
          IF Decodes(t)
            THEN Receive(r, first, t, t.sub) /\ UNCHANGED answer
            ELSE /\ Receive(r, "answer", t, t.sub)
                 /\ answer' = [answer EXCEPT ![r] = "unauthorized"]
    BY <1>1 DEF ReceiveToken
  <2>2. t \in Token /\ t.sub \in User \cup {None}
    BY DEF TypeOK, Token
  <2>3. "answer" \in Pc /\ "unauthorized" \in Answer
    BY DEF Pc, Answer
  <2>4. \E f \in Pc : Receive(r, f, t, t.sub)
    BY <2>1, <2>3
  <2>5. answer' \in [Req -> Answer]
    BY <2>1, <2>3 DEF TypeOK
  <2> QED
    BY <1>1, <2>2, <2>4, <2>5, ReceiveType DEF TypeOK, ReceiveToken, db
<1>2. ASSUME NEW r \in Req, NEW first \in Pc, ReceiveEmail(r, first)
      PROVE TypeOK'
  <2>1. PICK u \in User : Receive(r, first, NoToken, u)
    BY <1>2 DEF ReceiveEmail
  <2>2. NoToken \in Token
    BY DEF NoToken, Token
  <2> QED
    BY <1>2, <2>1, <2>2, ReceiveType DEF TypeOK, ReceiveEmail, db
<1>3. ASSUME NEW r \in Req, RefreshLoad(r) PROVE TypeOK'
  BY <1>3, CheckType DEF TypeOK, RefreshLoad, db, env, args, Pc, Answer
<1>4. ASSUME NEW r \in Req, RefreshUser(r) PROVE TypeOK'
  BY <1>4, <1>a, CheckType DEF TypeOK, RefreshUser, db, env, args, Pc, Answer
<1>5. ASSUME NEW r \in Req, RefreshRotate(r) PROVE TypeOK'
  BY <1>5, CheckType DEF TypeOK, RefreshRotate, env, args, Pc, Answer
<1>6. ASSUME NEW r \in Req, RefreshCommit(r) PROVE TypeOK'
  <2>1. tok[r] \in Token /\ sess[tok[r].sid] \in Row
    BY DEF TypeOK, Token
  <2>2. Rotated(r, sess[tok[r].sid]) \in Row
    BY <2>1 DEF TypeOK, Rotated, Row
  <2>3. sess' \in [Serial -> Row]
    BY <1>6, <2>2 DEF TypeOK, RefreshCommit
  <2>4. spent' \subseteq Spent
    BY <1>6, <2>1 DEF TypeOK, RefreshCommit, Owner, Spent, Token
  <2> QED
    BY <1>6, <2>3, <2>4 DEF TypeOK, RefreshCommit, Reply, Goto, UnlockRows,
                            args, Pc, Answer
<1>7. ASSUME NEW r \in Req, LogoutLoad(r) PROVE TypeOK'
  BY <1>7, CheckType DEF TypeOK, LogoutLoad, db, env, args, Pc, Answer
<1>8. ASSUME NEW r \in Req, LogoutRevoke(r) PROVE TypeOK'
  BY <1>8 DEF TypeOK, LogoutRevoke, Goto, env, args, Pc
<1>9. ASSUME NEW r \in Req, LogoutCommit(r) PROVE TypeOK'
  BY <1>9 DEF TypeOK, LogoutCommit, Revoked, Reply, Goto, UnlockRows, env,
              args, Row, Token, Pc, Answer
<1>10. ASSUME NEW r \in Req, LoginLoad(r) PROVE TypeOK'
  BY <1>10, <1>a, CheckType DEF TypeOK, LoginLoad, db, env, args, Pc, Answer
<1>11. ASSUME NEW r \in Req, LoginCommit(r) PROVE TypeOK'
  BY <1>11 DEF TypeOK, LoginCommit, NewRow, Reply, Goto, env, args, Row, Pc,
               Answer
<1>12. ASSUME NEW r \in Req, RegisterCheck(r) PROVE TypeOK'
  BY <1>12, CheckType DEF TypeOK, RegisterCheck, db, env, args, Pc, Answer
<1>13. ASSUME NEW r \in Req, RegisterInsert(r) PROVE TypeOK'
  BY <1>13, <1>a, CheckType DEF TypeOK, RegisterInsert, env, args, Pc, Answer
<1>14. ASSUME NEW r \in Req, RegisterCommit(r) PROVE TypeOK'
  BY <1>14 DEF TypeOK, RegisterCommit, NewRow, Reply, Goto, UnlockEmails, env,
               args, Row, Pc, Answer
<1>15. ASSUME NEW r \in Req, Clear(r)
       PROVE  /\ pc' \in [Req -> Pc] /\ answer' \in [Req -> Answer]
              /\ serial' \in [Req -> Serial] /\ tok' \in [Req -> Token]
              /\ who' \in [Req -> User \cup {None}]
              /\ now' \in [Req -> 0..MaxTime] /\ exp' \in [Req -> Time]
  BY <1>15 DEF TypeOK, Clear, NoToken, Token, Pc, Answer
<1>16. ASSUME NEW r \in Req, Deliver(r) PROVE TypeOK'
  <2>1. SidOf(r) \in Serial
    BY DEF TypeOK, SidOf, Token
  <2>2. Minted(r, SidOf(r)) \in Token
    BY <2>1 DEF TypeOK, Minted, Token
  <2> QED
    BY <1>15, <1>16, <2>2 DEF TypeOK, Deliver, db
<1>17. ASSUME NEW r \in Req, Abort(r) PROVE TypeOK'
  BY <1>15, <1>17 DEF TypeOK, Abort, UnlockRows, UnlockEmails, env
<1>18. ASSUME NEW u \in User, Disable(u) PROVE TypeOK'
  BY <1>18 DEF TypeOK, Disable, env, args
<1>19. CASE Tick
  BY <1>19 DEF TypeOK, Tick, db, args
<1>20. CASE UNCHANGED vars
  BY <1>20 DEF TypeOK, vars, db, env, args
<1> HIDE DEF Serial, Time
<1>21. "refreshLoad" \in Pc /\ "logoutLoad" \in Pc /\ "loginLoad" \in Pc
       /\ "registerCheck" \in Pc
  BY DEF Pc, Working, Refreshing, LoggingOut, LoggingIn, Registering
<1> QED
  BY <1>1, <1>2, <1>3, <1>4, <1>5, <1>6, <1>7, <1>8, <1>9, <1>10, <1>11,
     <1>12, <1>13, <1>14, <1>16, <1>17, <1>18, <1>19, <1>20, <1>21
     DEF Next, Steps, ReceiveRefresh, ReceiveLogout, ReceiveLogin,
         ReceiveRegister

\* Type correctness: every reachable state of any instance is well typed.
THEOREM TypeCorrect == Spec => []TypeOK
BY TypeInit, TypeStep, PTL DEF Spec

-----------------------------------------------------------------------------
(* The inductive invariant *)

Exists(s) == sess[s].state # "absent"

\* Every name in use was drawn by a request already received.
Bounded ==
    /\ \A s \in Serial : /\ Exists(s) => s <= received
                         /\ sess[s].hash <= received
    /\ \A x \in spent : x.old <= received
    /\ \A t \in delivered : t.jti \in 1..received /\ Exists(t.sid)

\* The names a request in flight will hand out are its own: no other request
\* has them, no client holds them and no row carries them before it commits.
Fresh ==
    \A r \in Req : pc[r] # "idle" =>
        /\ serial[r] \in 1..received
        /\ \A q \in Req : q # r /\ pc[q] # "idle" => serial[q] # serial[r]
        /\ \A t \in delivered : t.jti # serial[r]
        /\ \A x \in spent : x.old # serial[r]
        /\ pc[r] \in Working => /\ ~Exists(serial[r])
                               /\ \A s \in Serial : sess[s].hash # serial[r]

\* The token a session accepts was never redeemed and is its own.
Heads ==
    /\ \A s \in Serial, x \in spent : Exists(s) => x.old # sess[s].hash
    /\ \A s, q \in Serial : Exists(s) /\ Exists(q) /\ sess[s].hash = sess[q].hash
                            => s = q

\* A request about to commit holds its row, and a rotation still finds the
\* token it compared with.
Locked ==
    \A r \in Req :
        /\ pc[r] \in {"refreshCommit", "logoutCommit"} => rowLock[tok[r].sid] = r
        /\ pc[r] = "refreshCommit" => /\ sess[tok[r].sid].state = "open"
                                     /\ sess[tok[r].sid].hash = tok[r].jti

\* What a request carries at each of its steps.
Carried ==
    \A r \in Req :
        /\ pc[r] \in Refreshing \cup LoggingOut => tok[r] \in delivered
        /\ pc[r] \in LoggingIn \cup Registering => tok[r] = NoToken
        /\ answer[r] # "none" => pc[r] = "answer"
        /\ answer[r] = "tokens" => Exists(SidOf(r))

IndInv == /\ TypeOK /\ Bounded /\ Fresh /\ Heads /\ Locked /\ Carried
          /\ OneWinner /\ WinnerKeepsSession /\ LogoutIsFinal

\* A step that moves one request forward or refuses it, and writes no row.
Quiet(r) ==
    /\ UNCHANGED <<sess, spent, delivered, received, serial, tok, rowLock>>
    /\ pc[r] \in Working
    /\ \A q \in Req \ {r} : pc'[q] = pc[q] /\ answer'[q] = answer[q]
    /\ \/ /\ answer'[r] = answer[r]
          /\ pc'[r] \in Working \ {"refreshCommit", "logoutCommit"}
          /\ pc'[r] \in Refreshing \cup LoggingOut =>
                pc[r] \in Refreshing \cup LoggingOut
          /\ pc'[r] \in LoggingIn \cup Registering =>
                pc[r] \in LoggingIn \cup Registering
       \/ /\ pc'[r] = "answer"
          /\ \/ answer'[r] \in {"unauthorized", "invalid", "serverError"}
             \/ /\ answer'[r] = "noContent"
                /\ sess[tok[r].sid].state = "revoked"

LEMMA QuietStep ==
    ASSUME IndInv, TypeOK', NEW r \in Req, Quiet(r)
    PROVE  IndInv'
<1> USE DEF IndInv, Quiet
<1>1. Bounded'
  BY DEF Bounded, Exists
<1>2. Fresh'
  BY DEF Fresh, Exists
<1>3. Heads' /\ OneWinner'
  BY DEF Heads, Exists, OneWinner
<1>4. Locked'
  BY DEF Locked
<1>5. Carried'
  BY DEF Carried, Exists, SidOf
<1>6. WinnerKeepsSession'
  BY DEF WinnerKeepsSession, SidOf, Carried
<1>7. LogoutIsFinal'
  BY DEF LogoutIsFinal
<1> QED
  BY <1>1, <1>2, <1>3, <1>4, <1>5, <1>6, <1>7

LEMMA IndInit == Init => IndInv
<1> SUFFICES ASSUME Init PROVE IndInv
  OBVIOUS
<1>1. TypeOK
  BY TypeInit
<1>2. Bounded /\ Fresh /\ Heads /\ Locked /\ Carried
  BY BoundsAssumption
     DEF Init, Bounded, Fresh, Heads, Locked, Carried, Exists, NoRow
<1>3. OneWinner /\ WinnerKeepsSession /\ LogoutIsFinal
  BY DEF Init, OneWinner, WinnerKeepsSession, LogoutIsFinal
<1> QED
  BY <1>1, <1>2, <1>3 DEF IndInv

\* The parts of the type invariant the steps below rest on.
LEMMA TypeFacts ==
    ASSUME TypeOK
    PROVE  /\ received \in Nat /\ Serial \subseteq Nat
           /\ \A s \in Serial : sess[s].hash \in Nat
           /\ \A x \in spent : x.old \in Nat
           /\ \A t \in delivered : t.sid \in Serial /\ t.jti \in Nat
           /\ \A q \in Req : /\ tok[q].sid \in Serial /\ tok[q].jti \in Nat
                            /\ serial[q] \in Serial
                            /\ SidOf(q) \in Serial
<1>1. Serial \subseteq Nat /\ received \in Nat
  BY BoundsAssumption DEF TypeOK
<1> HIDE DEF Serial
<1>2. \A s \in Serial : sess[s].hash \in Nat
  BY <1>1 DEF TypeOK, Row
<1>3. \A x \in spent : x.old \in Nat
  BY <1>1 DEF TypeOK, Spent
<1>4. \A t \in Token : t.sid \in Serial /\ t.jti \in Nat
  BY <1>1 DEF Token
<1>5. \A q \in Req : tok[q] \in Token /\ serial[q] \in Serial
  BY DEF TypeOK
<1>6. \A q \in Req : SidOf(q) \in Serial
  BY <1>4, <1>5 DEF SidOf
<1> QED
  BY <1>1, <1>2, <1>3, <1>4, <1>5, <1>6 DEF TypeOK

\* A request arrives: its serial number is above every name in use.
LEMMA ReceiveStep ==
    ASSUME IndInv, TypeOK', NEW r \in Req, NEW first, NEW t, NEW u,
           Receive(r, first, t, u),
           UNCHANGED <<sess, spent, delivered, rowLock>>,
           \/ /\ first = "answer"
              /\ answer' = [answer EXCEPT ![r] = "unauthorized"]
           \/ /\ UNCHANGED answer
              /\ \/ first \in {"refreshLoad", "logoutLoad"} /\ t \in delivered
                 \/ first \in {"loginLoad", "registerCheck"} /\ t = NoToken
    PROVE  IndInv'
<1> USE DEF IndInv
<1>1. /\ received' = received + 1 /\ received' \in Serial
      /\ received \in Nat
  BY BoundsAssumption DEF Receive, TypeOK
<1>2. /\ pc[r] = "idle" /\ pc'[r] = first
      /\ serial'[r] = received + 1 /\ tok'[r] = t
      /\ \A q \in Req \ {r} : /\ pc'[q] = pc[q] /\ serial'[q] = serial[q]
                              /\ tok'[q] = tok[q] /\ answer'[q] = answer[q]
      /\ answer'[r] \in {"none", "unauthorized"}
  BY DEF Receive, Goto, TypeOK, Carried
<1> HIDE DEF Serial
<1>3. Bounded'
  BY <1>1, TypeFacts DEF Bounded, Exists
<1>4. Fresh'
  <2>1. /\ ~Exists(received + 1)
        /\ \A s \in Serial : sess[s].hash # received + 1
        /\ \A x \in spent : x.old # received + 1
        /\ \A y \in delivered : y.jti # received + 1
        /\ \A q \in Req : pc[q] # "idle" => serial[q] # received + 1
    BY <1>1, TypeFacts DEF Bounded, Fresh
  <2>2. ASSUME NEW q \in Req, q # r, pc[q] # "idle"
        PROVE  serial[q] \in 1..(received + 1)
    BY <1>1, <2>2 DEF Fresh
  <2> QED
    BY <1>1, <1>2, <2>1, <2>2 DEF Fresh, Exists
<1>5. Heads' /\ OneWinner'
  BY DEF Heads, Exists, OneWinner
<1>6. Locked'
  BY <1>2 DEF Locked
<1>7. Carried'
  BY <1>2 DEF Carried, Exists, SidOf
<1>8. WinnerKeepsSession'
  BY <1>2 DEF WinnerKeepsSession, SidOf
<1>9. LogoutIsFinal'
  BY <1>2 DEF LogoutIsFinal
<1> QED
  BY <1>3, <1>4, <1>5, <1>6, <1>7, <1>8, <1>9

\* A rotation commits.
LEMMA RotationStep ==
    ASSUME IndInv, TypeOK', NEW r \in Req, RefreshCommit(r)
    PROVE  IndInv'
<1> USE DEF IndInv
<1> DEFINE sid == tok[r].sid
<1>1. /\ pc[r] = "refreshCommit" /\ pc'[r] = "answer"
      /\ answer'[r] = "tokens"
      /\ \A q \in Req \ {r} : pc'[q] = pc[q] /\ answer'[q] = answer[q]
      /\ UNCHANGED <<received, delivered, serial, tok>>
  BY DEF RefreshCommit, Reply, Goto, TypeOK, args
<1>2. /\ tok[r] \in delivered /\ tok[r] # NoToken
      /\ sid \in Serial /\ Exists(sid)
      /\ sess[sid].hash = tok[r].jti /\ rowLock[sid] = r
  BY <1>1, TypeFacts DEF Carried, Locked, Exists, Bounded, NoToken
<1>3. /\ \A s \in Serial \ {sid} : sess'[s] = sess[s]
      /\ sess'[sid].hash = serial[r]
      /\ sess'[sid].state = sess[sid].state
  BY <1>2 DEF RefreshCommit, Rotated, TypeOK
<1>4. \A s \in Serial : Exists(s)' = Exists(s)
  BY <1>3 DEF Exists
<1> DEFINE x0 == [sid |-> tok[r].sid, old |-> tok[r].jti,
                  new |-> serial[r], owner |-> Owner(r)]
<1>5. spent' = spent \cup {x0} /\ x0.old = tok[r].jti
  BY DEF RefreshCommit
<1> HIDE DEF x0, sid, Serial
<1>6. \A s \in Serial : rowLock[s] # r => rowLock'[s] = rowLock[s]
  BY DEF RefreshCommit, UnlockRows
<1>7. /\ serial[r] \in 1..received /\ ~Exists(serial[r])
      /\ \A s \in Serial : sess[s].hash # serial[r]
      /\ \A x \in spent : x.old # serial[r] /\ x.old # tok[r].jti
      /\ tok[r].jti # serial[r]
  BY <1>1, <1>2 DEF Fresh, Heads
<1>8. Bounded'
  BY <1>1, <1>2, <1>3, <1>4, <1>5, <1>7, TypeFacts DEF Bounded
<1>9. Fresh'
  BY <1>1, <1>2, <1>3, <1>4, <1>5, <1>7, TypeFacts DEF Fresh
<1>10. Heads'
  BY <1>2, <1>3, <1>4, <1>5, <1>7 DEF Heads
<1>11. OneWinner'
  BY <1>5, <1>7 DEF OneWinner
<1>12. Locked'
  BY <1>1, <1>2, <1>3, <1>6, TypeFacts DEF Locked, sid
<1>13. SidOf(r)' = sid /\ \A q \in Req : SidOf(q)' = SidOf(q)
  BY <1>1, <1>2 DEF SidOf, sid
<1>14. \A q \in Req : SidOf(q) \in Serial
  BY DEF SidOf, TypeOK, Token
<1>15. Carried'
  BY <1>1, <1>2, <1>4, <1>13, <1>14 DEF Carried
<1>16. WinnerKeepsSession'
  <2>1. \A t \in delivered : \/ sess'[t.sid].hash = t.jti
                             \/ \E x \in spent' : x.old = t.jti
    BY <1>2, <1>3, <1>5, TypeFacts DEF WinnerKeepsSession
  <2>2. ASSUME NEW q \in Req, answer'[q] = "tokens"
        PROVE  sess'[SidOf(q)'].hash = serial'[q]
    <3>1. CASE q = r
      BY <3>1, <1>1, <1>3, <1>13
    <3>2. CASE q # r
      <4>1. answer[q] = "tokens" /\ pc[q] = "answer"
        BY <2>2, <3>2, <1>1 DEF Carried
      <4>2. sess[SidOf(q)].hash = serial[q]
        BY <4>1 DEF WinnerKeepsSession
      <4>3. tok[r].jti # serial[q]
        BY <4>1, <1>2 DEF Fresh
      <4> QED
        BY <4>2, <4>3, <1>1, <1>2, <1>3, <1>13, <1>14
    <3> QED
      BY <3>1, <3>2
  <2> QED
    BY <2>1, <2>2, <1>1 DEF WinnerKeepsSession
<1>17. LogoutIsFinal'
  BY <1>1, <1>3, TypeFacts DEF LogoutIsFinal, sid
<1> QED
  BY <1>8, <1>9, <1>10, <1>11, <1>12, <1>15, <1>16, <1>17

\* A logout commits: only the state of one row changes.
LEMMA LogoutStep ==
    ASSUME IndInv, TypeOK', NEW r \in Req, LogoutCommit(r)
    PROVE  IndInv'
<1> USE DEF IndInv
<1> DEFINE sid == tok[r].sid
<1>1. /\ pc[r] = "logoutCommit" /\ pc'[r] = "answer"
      /\ answer'[r] = "noContent"
      /\ \A q \in Req \ {r} : pc'[q] = pc[q] /\ answer'[q] = answer[q]
      /\ UNCHANGED <<received, delivered, spent, serial, tok>>
  BY DEF LogoutCommit, Reply, Goto, TypeOK, env, args
<1>2. sid \in Serial /\ Exists(sid) /\ rowLock[sid] = r
  BY <1>1 DEF Carried, Locked, Bounded, TypeOK, Token
<1>3. /\ \A s \in Serial \ {sid} : sess'[s] = sess[s]
      /\ \A s \in Serial : sess'[s].hash = sess[s].hash
      /\ sess'[sid].state = "revoked"
  BY <1>2 DEF LogoutCommit, Revoked, TypeOK
<1>4. \A s \in Serial : Exists(s)' = Exists(s)
  BY <1>2, <1>3 DEF Exists
<1>5. \A s \in Serial : rowLock[s] # r => rowLock'[s] = rowLock[s]
  BY DEF LogoutCommit, UnlockRows
<1>6. \A q \in Req : SidOf(q)' = SidOf(q) /\ SidOf(q) \in Serial
  BY <1>1 DEF SidOf, TypeOK, Token
<1> HIDE DEF sid, Serial
<1>7. Bounded'
  BY <1>1, <1>3, <1>4, TypeFacts DEF Bounded
<1>8. Fresh'
  BY <1>1, <1>3, <1>4, TypeFacts DEF Fresh
<1>9. Heads' /\ OneWinner'
  BY <1>1, <1>3, <1>4 DEF Heads, OneWinner
<1>10. Locked'
  BY <1>1, <1>2, <1>3, <1>5, TypeFacts DEF Locked, sid
<1>11. Carried'
  BY <1>1, <1>4, <1>6 DEF Carried
<1>12. WinnerKeepsSession'
  BY <1>1, <1>3, <1>6, TypeFacts DEF WinnerKeepsSession
<1>13. LogoutIsFinal'
  BY <1>1, <1>3, TypeFacts DEF LogoutIsFinal, sid
<1> QED
  BY <1>7, <1>8, <1>9, <1>10, <1>11, <1>12, <1>13

\* A login or a registration commits: one new row, with names of its own.
LEMMA OpenStep ==
    ASSUME IndInv, TypeOK', NEW r \in Req,
           pc[r] \in LoggingIn \cup Registering,
           pc' = [pc EXCEPT ![r] = "answer"],
           answer' = [answer EXCEPT ![r] = "tokens"],
           sess' = [sess EXCEPT ![serial[r]] = NewRow(r)],
           UNCHANGED <<received, delivered, spent, serial, tok, rowLock>>
    PROVE  IndInv'
<1> USE DEF IndInv
<1>1. /\ pc'[r] = "answer" /\ answer'[r] = "tokens"
      /\ \A q \in Req \ {r} : pc'[q] = pc[q] /\ answer'[q] = answer[q]
  BY DEF TypeOK
<1>2. /\ serial[r] \in Serial /\ serial[r] \in 1..received
      /\ tok[r] = NoToken /\ ~Exists(serial[r])
      /\ \A s \in Serial : sess[s].hash # serial[r]
      /\ \A x \in spent : x.old # serial[r]
      /\ \A t \in delivered : t.jti # serial[r]
      /\ \A q \in Req : q # r /\ pc[q] # "idle" => serial[q] # serial[r]
  BY TypeFacts DEF Carried, Fresh
<1>3. /\ \A s \in Serial \ {serial[r]} : sess'[s] = sess[s]
      /\ sess'[serial[r]].hash = serial[r]
      /\ sess'[serial[r]].state = "open"
  BY <1>2 DEF NewRow, TypeOK
<1>4. \A s \in Serial : Exists(s)' <=> s = serial[r] \/ Exists(s)
  BY <1>2, <1>3 DEF Exists
<1>5. /\ SidOf(r) = serial[r]
      /\ \A q \in Req : SidOf(q)' = SidOf(q)
  BY <1>2 DEF SidOf
<1>6. \A q \in Req : pc[q] \in Refreshing \cup LoggingOut => Exists(tok[q].sid)
  BY DEF Carried, Bounded
<1> HIDE DEF Serial
<1>7. Bounded'
  BY <1>1, <1>2, <1>3, <1>4, TypeFacts DEF Bounded
<1>8. Fresh'
  BY <1>1, <1>2, <1>3, <1>4, TypeFacts DEF Fresh
<1>9. Heads' /\ OneWinner'
  BY <1>2, <1>3, <1>4, TypeFacts DEF Heads, OneWinner
<1>10. Locked'
  BY <1>1, <1>2, <1>3, <1>6, TypeFacts DEF Locked
<1>11. Carried'
  BY <1>1, <1>2, <1>4, <1>5, TypeFacts DEF Carried
<1>12. WinnerKeepsSession'
  BY <1>1, <1>2, <1>3, <1>5, TypeFacts
     DEF WinnerKeepsSession, Carried, Bounded
<1>13. LogoutIsFinal'
  BY <1>1, <1>2, <1>3, TypeFacts DEF LogoutIsFinal, Exists
<1> QED
  BY <1>7, <1>8, <1>9, <1>10, <1>11, <1>12, <1>13

\* A request ends, its response delivered or lost.
LEMMA EndStep ==
    ASSUME IndInv, TypeOK', NEW r \in Req, Deliver(r) \/ Abort(r)
    PROVE  IndInv'
<1> USE DEF IndInv
<1>1. /\ UNCHANGED <<sess, spent, received>>
      /\ pc'[r] = "idle" /\ answer'[r] = "none" /\ pc[r] # "idle"
      /\ \A q \in Req \ {r} : /\ pc'[q] = pc[q] /\ answer'[q] = answer[q]
                              /\ serial'[q] = serial[q] /\ tok'[q] = tok[q]
  BY DEF Deliver, Abort, Clear, TypeOK, db, env
<1>2. \A q \in Req \ {r} : SidOf(q)' = SidOf(q)
  BY <1>1 DEF SidOf
<1>3. \A s \in Serial : rowLock[s] # r => rowLock'[s] = rowLock[s]
  BY DEF Deliver, Abort, UnlockRows, db
<1> DEFINE new == Minted(r, SidOf(r))
<1>4. /\ new.sid = SidOf(r) /\ new.jti = serial[r]
      /\ \/ delivered' = delivered
         \/ delivered' = delivered \cup {new} /\ answer[r] = "tokens"
  BY DEF Deliver, Abort, Minted, env
<1> HIDE DEF new, Serial
<1>5. /\ serial[r] \in 1..received
      /\ \A q \in Req : q # r /\ pc[q] # "idle" => serial[q] # serial[r]
      /\ answer[r] = "tokens" => /\ Exists(SidOf(r))
                                /\ sess[SidOf(r)].hash = serial[r]
  BY <1>1 DEF Fresh, Carried, WinnerKeepsSession
<1>6. Bounded'
  BY <1>1, <1>4, <1>5 DEF Bounded, Exists
<1>7. Fresh'
  BY <1>1, <1>4, <1>5 DEF Fresh, Exists
<1>8. Heads' /\ OneWinner'
  BY <1>1 DEF Heads, OneWinner, Exists
<1>9. Locked'
  BY <1>1, <1>3, TypeFacts DEF Locked
<1>10. Carried'
  BY <1>1, <1>2, <1>4 DEF Carried, Exists
<1>11. WinnerKeepsSession'
  BY <1>1, <1>2, <1>4, <1>5 DEF WinnerKeepsSession
<1>12. LogoutIsFinal'
  BY <1>1 DEF LogoutIsFinal
<1> QED
  BY <1>6, <1>7, <1>8, <1>9, <1>10, <1>11, <1>12

\* A request takes the lock of its row: the UPDATE of rotate_if_active that
\* matched, or the one of revoke.
LEMMA LockStep ==
    ASSUME IndInv, TypeOK', NEW r \in Req,
           UNCHANGED <<sess, spent, delivered, received, serial, tok, answer>>,
           rowLock[tok[r].sid] = None,
           rowLock' = [rowLock EXCEPT ![tok[r].sid] = r],
           \/ /\ pc[r] = "logoutRevoke"
              /\ pc' = [pc EXCEPT ![r] = "logoutCommit"]
           \/ /\ pc[r] = "refreshRotate"
              /\ pc' = [pc EXCEPT ![r] = "refreshCommit"]
              /\ sess[tok[r].sid].state = "open"
              /\ sess[tok[r].sid].hash = tok[r].jti
    PROVE  IndInv'
<1> USE DEF IndInv
<1>1. /\ pc[r] \in {"logoutRevoke", "refreshRotate"}
      /\ pc'[r] \in {"logoutCommit", "refreshCommit"}
      /\ pc[r] \in Refreshing \cup LoggingOut
      /\ pc'[r] = "refreshCommit" => /\ sess[tok[r].sid].state = "open"
                                    /\ sess[tok[r].sid].hash = tok[r].jti
      /\ \A q \in Req \ {r} : pc'[q] = pc[q]
  BY DEF TypeOK
<1>2. \A q \in Req : SidOf(q)' = SidOf(q)
  BY DEF SidOf
<1>3. /\ rowLock'[tok[r].sid] = r
      /\ \A s \in Serial : rowLock[s] # None => rowLock'[s] = rowLock[s]
  BY TypeFacts DEF TypeOK
<1>4. Bounded' /\ Heads' /\ OneWinner' /\ WinnerKeepsSession' /\ LogoutIsFinal'
  BY <1>2 DEF Bounded, Heads, OneWinner, WinnerKeepsSession, LogoutIsFinal,
              Exists
<1>5. Fresh'
  BY <1>1 DEF Fresh, Exists
<1>6. Locked'
  <2> HIDE DEF IndInv
  <2> USE DEF Locked
  <2>1. Locked /\ \A q \in Req : q # None /\ tok[q].sid \in Serial
    BY TypeFacts, NoneAssumption DEF IndInv
  <2>2. ASSUME NEW q \in Req \ {r},
               pc'[q] \in {"refreshCommit", "logoutCommit"}
        PROVE  rowLock'[tok[q].sid] = q
    BY <1>1, <1>3, <2>1, <2>2
  <2>3. pc'[r] \in {"refreshCommit", "logoutCommit"} =>
          rowLock'[tok[r].sid] = r
    BY <1>3
  <2> QED
    BY <1>1, <2>1, <2>2, <2>3
<1>7. Carried'
  BY <1>1, <1>2 DEF Carried, Exists
<1> QED
  BY <1>4, <1>5, <1>6, <1>7

LEMMA IndStep == IndInv /\ [Next]_vars => IndInv'
<1> SUFFICES ASSUME IndInv, [Next]_vars PROVE IndInv'
  OBVIOUS
<1>1. TypeOK'
  BY TypeStep DEF IndInv
<1>2. ASSUME NEW r \in Req, ReceiveRefresh(r) \/ ReceiveLogout(r) PROVE IndInv'
  BY <1>1, <1>2, ReceiveStep, Zenon
     DEF ReceiveRefresh, ReceiveLogout, ReceiveToken, db
<1>3. ASSUME NEW r \in Req, ReceiveLogin(r) \/ ReceiveRegister(r) PROVE IndInv'
  BY <1>1, <1>3, ReceiveStep
     DEF ReceiveLogin, ReceiveRegister, ReceiveEmail, db
<1>4. ASSUME NEW r \in Req, RefreshLoad(r) PROVE IndInv'
  <2>1. Quiet(r)
    BY <1>4 DEF RefreshLoad, Check, Goto, Reply, Quiet, IndInv, TypeOK,
                db, env, args
  <2> QED
    BY <1>1, <2>1, QuietStep
<1>5. ASSUME NEW r \in Req, RefreshUser(r) PROVE IndInv'
  <2>1. Quiet(r)
    BY <1>5 DEF RefreshUser, Check, Goto, Reply, Quiet, IndInv, TypeOK,
                db, env, args
  <2> QED
    BY <1>1, <2>1, QuietStep
<1>6. ASSUME NEW r \in Req, LogoutLoad(r) PROVE IndInv'
  <2>1. pc[r] = "logoutLoad" => sess[tok[r].sid].state \in {"open", "revoked"}
    BY TypeFacts DEF IndInv, Carried, Bounded, Exists, TypeOK, Row
  <2>2. Quiet(r)
    BY <1>6, <2>1 DEF LogoutLoad, Check, Goto, Reply, Quiet, IndInv, TypeOK,
                      db, env, args
  <2> QED
    BY <1>1, <2>2, QuietStep
<1>7. ASSUME NEW r \in Req, LoginLoad(r) PROVE IndInv'
  <2>1. Quiet(r)
    BY <1>7 DEF LoginLoad, Check, Goto, Reply, Quiet, IndInv, TypeOK,
                db, env, args
  <2> QED
    BY <1>1, <2>1, QuietStep
<1>8. ASSUME NEW r \in Req, RegisterCheck(r) PROVE IndInv'
  <2>1. Quiet(r)
    BY <1>8 DEF RegisterCheck, Check, Goto, Reply, Quiet, IndInv, TypeOK,
                db, env, args
  <2> QED
    BY <1>1, <2>1, QuietStep
<1>9. ASSUME NEW r \in Req, RegisterInsert(r) PROVE IndInv'
  <2>1. Quiet(r)
    BY <1>9 DEF RegisterInsert, Check, Goto, Reply, Quiet, IndInv, TypeOK,
                env, args
  <2> QED
    BY <1>1, <2>1, QuietStep
<1>10. ASSUME NEW r \in Req, RefreshRotate(r) PROVE IndInv'
  <2>1. CASE Rotatable(tok[r], sess[tok[r].sid], now[r])
    BY <1>1, <1>10, <2>1, LockStep
       DEF RefreshRotate, Rotatable, Check, Goto, env, args
  <2>2. CASE ~Rotatable(tok[r], sess[tok[r].sid], now[r])
    <3>1. rowLock' = rowLock
      BY <1>10, <2>2, TypeFacts DEF RefreshRotate, IndInv, TypeOK
    <3>2. Quiet(r)
      BY <1>10, <2>2, <3>1 DEF RefreshRotate, Check, Reply, Goto, Quiet,
                               IndInv, TypeOK, env, args
    <3> QED
      BY <1>1, <3>2, QuietStep
  <2> QED
    BY <2>1, <2>2
<1>11. ASSUME NEW r \in Req, LogoutRevoke(r) PROVE IndInv'
  BY <1>1, <1>11, LockStep DEF LogoutRevoke, Goto, env, args
<1>12. ASSUME NEW r \in Req, LoginCommit(r) PROVE IndInv'
  BY <1>1, <1>12, OpenStep DEF LoginCommit, Reply, Goto, env, args
<1>13. ASSUME NEW r \in Req, RegisterCommit(r) PROVE IndInv'
  BY <1>1, <1>13, OpenStep DEF RegisterCommit, Reply, Goto, env, args
<1>14. ASSUME UNCHANGED <<sess, spent, delivered, received, serial, tok,
                          rowLock, pc, answer>>
       PROVE IndInv'
  BY <1>1, <1>14 DEF IndInv, Bounded, Fresh, Heads, Locked, Carried, Exists,
                     OneWinner, WinnerKeepsSession, LogoutIsFinal, SidOf
<1>15. (\E u \in User : Disable(u)) \/ Tick \/ UNCHANGED vars => IndInv'
  BY <1>14 DEF Disable, Tick, vars, db, env, args
<1> QED
  BY <1>1, <1>2, <1>3, <1>4, <1>5, <1>6, <1>7, <1>8, <1>9, <1>10, <1>11, <1>12,
     <1>13, <1>15, RotationStep, LogoutStep, EndStep
     DEF Next, Steps

LEMMA Inductive == Spec => []IndInv
BY IndInit, IndStep, PTL DEF Spec

\* A refresh token is redeemed at most once.
THEOREM RefreshHasOneWinner == Spec => []OneWinner
BY Inductive, PTL DEF IndInv

\* The winner of a race keeps its session: the losers change nothing.
THEOREM WinnersKeepTheirSession == Spec => []WinnerKeepsSession
BY Inductive, PTL DEF IndInv

\* An answered logout has revoked the session.
THEOREM LogoutsAreFinal == Spec => []LogoutIsFinal
BY Inductive, PTL DEF IndInv

-----------------------------------------------------------------------------
(* Accounts and expiry *)

\* What a request has found out about the account it acts for still holds of the
\* row of its session, and an email being registered stays free until the commit.
Owned ==
    /\ \A s \in Serial : Exists(s) => sess[s].user \in User
    /\ \A r \in Req :
        /\ pc[r] \in LoggingIn \cup Registering => who[r] \in User
        /\ pc[r] \in Refreshing => who[r] = tok[r].sub
        /\ pc[r] \in {"refreshUser", "refreshRotate", "refreshCommit"} =>
              who[r] = sess[tok[r].sid].user
        /\ pc[r] \in {"refreshRotate", "refreshCommit"} => users[who[r]] # "absent"
        /\ pc[r] = "registerCommit" =>
              users[who[r]] = "absent" /\ emailLock[who[r]] = r

\* After a rotation for an account that is no longer active the account stays
\* disabled, and no request that passed the check of is_active has the new token.
Late ==
    \A x \in spent : x.owner = "inactive" =>
        /\ Exists(x.sid) /\ users[sess[x.sid].user] = "disabled"
        /\ \A r \in Req :
             pc[r] \in {"refreshRotate", "refreshCommit"} /\ tok[r].sid = x.sid =>
               tok[r].jti # sess[x.sid].hash

\* The row a token was minted for has the expiry of the token on its way.
Dated == \A r \in Req : answer[r] = "tokens" => sess[SidOf(r)].exp = exp[r]

AccountInv == /\ IndInv /\ Owned /\ Late /\ Dated
              /\ RowExpiresWithItsToken /\ OneLateRotation

\* A step of one request that writes no session, account or delivered token.
Local(r) ==
    /\ UNCHANGED <<sess, spent, delivered, users>>
    /\ \A q \in Req \ {r} :
         /\ pc'[q] = pc[q] /\ tok'[q] = tok[q] /\ who'[q] = who[q]
         /\ serial'[q] = serial[q] /\ exp'[q] = exp[q] /\ answer'[q] = answer[q]
         /\ who[q] \in User /\ emailLock[who[q]] = q => emailLock'[who[q]] = q
    /\ answer'[r] # "tokens"
    /\ pc'[r] \in LoggingIn \cup Registering => who'[r] \in User
    /\ pc'[r] \in Refreshing => who'[r] = tok'[r].sub
    /\ pc'[r] \in {"refreshUser", "refreshRotate", "refreshCommit"} =>
         who'[r] = sess[tok'[r].sid].user
    /\ pc'[r] \in {"refreshRotate", "refreshCommit"} =>
         /\ tok'[r] = tok[r] /\ who'[r] = who[r]
         /\ \/ pc[r] = "refreshRotate"
            \/ pc[r] = "refreshUser" /\ users[who[r]] = "active"
    /\ pc'[r] = "registerCommit" =>
         users[who'[r]] = "absent" /\ emailLock'[who'[r]] = r

LEMMA LocalStep ==
    ASSUME AccountInv, IndInv', NEW r \in Req, Local(r)
    PROVE  AccountInv'
<1> USE DEF AccountInv
<1>1. Owned'
  <2>1. \A s \in Serial : Exists(s)' => sess'[s].user \in User
    BY DEF Local, Owned, Exists
  <2>2. ASSUME NEW q \in Req
        PROVE  /\ pc'[q] \in LoggingIn \cup Registering => who'[q] \in User
               /\ pc'[q] \in Refreshing => who'[q] = tok'[q].sub
               /\ pc'[q] \in {"refreshUser", "refreshRotate", "refreshCommit"} =>
                     who'[q] = sess'[tok'[q].sid].user
               /\ pc'[q] \in {"refreshRotate", "refreshCommit"} =>
                     users'[who'[q]] # "absent"
               /\ pc'[q] = "registerCommit" =>
                     users'[who'[q]] = "absent" /\ emailLock'[who'[q]] = q
    <3>1. CASE q = r
      BY <3>1 DEF Local, Owned
    <3>2. CASE q # r
      BY <3>2 DEF Local, Owned
    <3> QED
      BY <3>1, <3>2
  <2> QED
    BY <2>1, <2>2 DEF Owned
<1>2. Late'
  <2> SUFFICES ASSUME NEW x \in spent, x.owner = "inactive"
               PROVE  /\ Exists(x.sid)' /\ users'[sess'[x.sid].user] = "disabled"
                      /\ \A q \in Req :
                           pc'[q] \in {"refreshRotate", "refreshCommit"}
                           /\ tok'[q].sid = x.sid => tok'[q].jti # sess'[x.sid].hash
    BY DEF Local, Late
  <2>1. /\ Exists(x.sid) /\ users[sess[x.sid].user] = "disabled"
        /\ \A q \in Req :
             pc[q] \in {"refreshRotate", "refreshCommit"} /\ tok[q].sid = x.sid =>
               tok[q].jti # sess[x.sid].hash
    BY DEF Late
  <2>2. ASSUME NEW q \in Req, q # r, pc'[q] \in {"refreshRotate", "refreshCommit"},
               tok'[q].sid = x.sid
        PROVE  tok'[q].jti # sess'[x.sid].hash
    BY <2>1, <2>2 DEF Local
  <2>3. ASSUME pc'[r] \in {"refreshRotate", "refreshCommit"}, tok'[r].sid = x.sid
        PROVE  tok'[r].jti # sess'[x.sid].hash
    <3>1. CASE pc[r] = "refreshRotate"
      BY <2>1, <2>3, <3>1 DEF Local
    <3>2. CASE pc[r] = "refreshUser" /\ users[who[r]] = "active"
      <4>1. who[r] = sess[x.sid].user
        BY <2>3, <3>2 DEF Local, Owned
      <4> QED
        BY <2>1, <3>2, <4>1
    <3> QED
      BY <2>3, <3>1, <3>2 DEF Local
  <2> QED
    BY <2>1, <2>2, <2>3 DEF Local, Exists
<1>3. Dated'
  <2>1. ASSUME NEW q \in Req, answer'[q] = "tokens"
        PROVE  sess'[SidOf(q)'].exp = exp'[q]
    BY <2>1 DEF Local, Dated, SidOf
  <2> QED
    BY <2>1 DEF Dated
<1>4. RowExpiresWithItsToken' /\ OneLateRotation'
  BY DEF Local, RowExpiresWithItsToken, OneLateRotation
<1> QED
  BY <1>1, <1>2, <1>3, <1>4

\* A request arrives.
LEMMA ReceiveLocal ==
    ASSUME TypeOK, NEW r \in Req, NEW first, NEW t, NEW u,
           Receive(r, first, t, u), UNCHANGED <<db, delivered, spent, exp>>,
           \/ /\ first = "answer"
              /\ answer' = [answer EXCEPT ![r] = "unauthorized"]
           \/ /\ UNCHANGED answer /\ answer[r] = "none"
              /\ \/ first \in {"refreshLoad", "logoutLoad"} /\ u = t.sub
                 \/ first \in {"loginLoad", "registerCheck"} /\ u \in User
    PROVE  Local(r)
<1>1. /\ pc'[r] = first /\ tok'[r] = t /\ who'[r] = u
      /\ \A q \in Req \ {r} : /\ pc'[q] = pc[q] /\ tok'[q] = tok[q] /\ who'[q] = who[q]
                              /\ serial'[q] = serial[q]
  BY DEF Receive, Goto, TypeOK
<1>2. answer'[r] # "tokens" /\ \A q \in Req \ {r} : answer'[q] = answer[q]
  BY DEF TypeOK
<1> QED
  BY <1>1, <1>2 DEF Local, db

\* The steps of a request up to its commit, and its failures.
LEMMA WorkLocal ==
    ASSUME AccountInv, NEW r \in Req,
           \/ RefreshLoad(r) \/ RefreshUser(r) \/ RefreshRotate(r)
           \/ LogoutLoad(r) \/ LogoutRevoke(r) \/ LoginLoad(r)
           \/ RegisterCheck(r) \/ RegisterInsert(r) \/ Abort(r)
    PROVE  Local(r)
<1> USE DEF AccountInv, IndInv
<1>1. \A q \in Req : q # None
  BY NoneAssumption
<1>2. pc[r] \in Working => answer[r] = "none"
  BY DEF Carried
<1>3. CASE RefreshLoad(r)
  BY <1>2, <1>3 DEF RefreshLoad, Check, Goto, Reply, Presentable, Local, Owned,
                    TypeOK, db, env, args
<1>4. CASE RefreshUser(r)
  BY <1>2, <1>4 DEF RefreshUser, Check, Goto, Reply, Local, Owned,
                    TypeOK, db, env, args
<1>5. CASE RefreshRotate(r)
  BY <1>2, <1>5 DEF RefreshRotate, Check, Goto, Reply, Local, Owned,
                    TypeOK, env, args
<1>6. CASE LogoutLoad(r)
  BY <1>2, <1>6 DEF LogoutLoad, Check, Goto, Reply, Local, TypeOK, db, env, args
<1>7. CASE LogoutRevoke(r)
  BY <1>2, <1>7 DEF LogoutRevoke, Goto, Local, TypeOK, env, args
<1>8. CASE LoginLoad(r)
  BY <1>2, <1>8 DEF LoginLoad, Check, Goto, Reply, Local, Owned, TypeOK,
                    db, env, args
<1>9. CASE RegisterCheck(r)
  BY <1>2, <1>9 DEF RegisterCheck, Check, Goto, Reply, Local, Owned, TypeOK,
                    db, env, args
<1>10. CASE RegisterInsert(r)
  <2>1. who[r] \in User /\ pc[r] = "registerInsert"
    BY <1>10 DEF RegisterInsert, Check, Goto, Reply, Owned
  <2>2. /\ emailLock[who[r]] = None
        /\ \A u \in User \ {who[r]} : emailLock'[u] = emailLock[u]
        /\ users[who[r]] = "absent" => emailLock'[who[r]] = r
    BY <1>10, <2>1 DEF RegisterInsert, TypeOK
  <2> QED
    BY <1>1, <1>2, <1>10, <2>1, <2>2 DEF RegisterInsert, Check, Goto, Reply, Local,
                                         TypeOK, env, args
<1>11. CASE Abort(r)
  <2>1. \A u \in User : emailLock[u] # r => emailLock'[u] = emailLock[u]
    BY <1>11 DEF Abort, UnlockEmails
  <2> QED
    BY <1>11, <2>1 DEF Abort, Clear, Local, TypeOK, env
<1> QED
  BY <1>3, <1>4, <1>5, <1>6, <1>7, <1>8, <1>9, <1>10, <1>11

\* A response reaches its client.
LEMMA DeliverAccount ==
    ASSUME AccountInv, IndInv', NEW r \in Req, Deliver(r)
    PROVE  AccountInv'
<1> USE DEF AccountInv
<1>1. /\ UNCHANGED <<sess, spent, users, emailLock>>
      /\ \A q \in Req \ {r} :
           /\ pc'[q] = pc[q] /\ tok'[q] = tok[q] /\ who'[q] = who[q]
           /\ serial'[q] = serial[q] /\ exp'[q] = exp[q] /\ answer'[q] = answer[q]
      /\ pc'[r] = "idle" /\ answer'[r] = "none"
  BY DEF Deliver, Clear, db, IndInv, TypeOK
<1>2. Owned' /\ Late' /\ OneLateRotation'
  BY <1>1 DEF Owned, Late, OneLateRotation, Exists
<1>3. \A q \in Req \ {r} : SidOf(q)' = SidOf(q)
  BY <1>1 DEF SidOf
<1>4. Dated'
  BY <1>1, <1>3 DEF Dated
<1>5. RowExpiresWithItsToken'
  <2>1. ASSUME NEW t \in delivered', sess'[t.sid].hash = t.jti
        PROVE  sess'[t.sid].exp = t.exp
    <3>1. CASE t \in delivered
      BY <1>1, <2>1, <3>1 DEF RowExpiresWithItsToken
    <3>2. CASE t \notin delivered
      <4>1. answer[r] = "tokens" /\ t = Minted(r, SidOf(r))
        BY <2>1, <3>2 DEF Deliver
      <4>2. t.sid = SidOf(r) /\ t.exp = exp[r]
        BY <4>1 DEF Minted
      <4> QED
        BY <1>1, <4>1, <4>2 DEF Dated
    <3> QED
      BY <3>1, <3>2
  <2> QED
    BY <2>1 DEF RowExpiresWithItsToken
<1> QED
  BY <1>2, <1>4, <1>5

\* An account is created or disabled, or nothing happens to accounts: what else
\* a step changes, no account that was there becomes absent, nor a disabled one active.
LEMMA UsersStep ==
    ASSUME AccountInv, [Next]_vars, NEW u \in User
    PROVE  /\ users[u] # "absent" => users'[u] # "absent"
           /\ users[u] = "disabled" => users'[u] = "disabled"
<1>1. CASE users' = users
  BY <1>1
<1>2. ASSUME NEW r \in Req, RegisterCommit(r)
      PROVE  /\ users[u] # "absent" => users'[u] # "absent"
             /\ users[u] = "disabled" => users'[u] = "disabled"
  <2>1. users[who[r]] = "absent" /\ users' = [users EXCEPT ![who[r]] = "active"]
    BY <1>2 DEF RegisterCommit, Reply, Goto, AccountInv, Owned
  <2> QED
    BY <2>1 DEF AccountInv, IndInv, TypeOK
<1>3. ASSUME NEW v \in User, Disable(v)
      PROVE  /\ users[u] # "absent" => users'[u] # "absent"
             /\ users[u] = "disabled" => users'[u] = "disabled"
  BY <1>3 DEF Disable, AccountInv, IndInv, TypeOK
<1>4. \/ users' = users
      \/ \E r \in Req : RegisterCommit(r)
      \/ \E v \in User : Disable(v)
  BY DEF Next, Steps, RefreshLoad, RefreshUser, RefreshRotate, RefreshCommit,
         LogoutLoad, LogoutRevoke, LogoutCommit, LoginLoad, LoginCommit,
         RegisterCheck, RegisterInsert, Deliver, Abort, ReceiveRefresh,
         ReceiveLogout, ReceiveLogin, ReceiveRegister, ReceiveToken, ReceiveEmail,
         Tick, vars, db
<1> QED
  BY <1>1, <1>2, <1>3, <1>4

\* A login or a registration commits its session.
LEMMA OpenAccount ==
    ASSUME AccountInv, IndInv', [Next]_vars, NEW r \in Req,
           LoginCommit(r) \/ RegisterCommit(r)
    PROVE  AccountInv'
<1> USE DEF AccountInv, IndInv
<1>1. /\ UNCHANGED <<spent, delivered, serial, tok, who, exp>>
      /\ pc[r] \in {"loginCommit", "registerCommit"} /\ pc'[r] = "answer"
      /\ answer'[r] = "tokens"
      /\ \A q \in Req \ {r} : pc'[q] = pc[q] /\ answer'[q] = answer[q]
  BY DEF LoginCommit, RegisterCommit, Reply, Goto, TypeOK, env, args
<1>2. /\ serial[r] \in Serial /\ ~Exists(serial[r]) /\ tok[r] = NoToken
      /\ who[r] \in User
  BY <1>1, TypeFacts DEF Fresh, Carried, Owned
<1>3. /\ sess'[serial[r]] = NewRow(r)
      /\ \A s \in Serial : s # serial[r] => sess'[s] = sess[s]
  BY <1>2 DEF LoginCommit, RegisterCommit, TypeOK
<1>4. \A s \in Serial : Exists(s) => sess'[s] = sess[s]
  BY <1>2, <1>3
<1>5. \A u \in User : /\ users[u] # "absent" => users'[u] # "absent"
                      /\ users[u] = "disabled" => users'[u] = "disabled"
  BY UsersStep
<1>6. \A q \in Req : pc[q] \in Refreshing =>
        /\ tok[q] \in delivered /\ tok[q].sid \in Serial /\ Exists(tok[q].sid)
        /\ sess[tok[q].sid].user \in User
  BY TypeFacts DEF Carried, Bounded, Owned
<1>7. \A q \in Req \ {r} : pc[q] = "registerCommit" =>
        /\ users'[who[q]] = users[who[q]] /\ emailLock'[who[q]] = q
  <2>1. CASE LoginCommit(r)
    BY <2>1 DEF LoginCommit, Owned
  <2>2. CASE RegisterCommit(r)
    <3>1. ASSUME NEW q \in Req \ {r}, pc[q] = "registerCommit"
          PROVE  who[q] # who[r] /\ who[q] \in User /\ emailLock[who[q]] = q
      BY <2>2, <3>1 DEF RegisterCommit, Reply, Goto, Owned
    <3> QED
      BY <2>2, <3>1 DEF RegisterCommit, UnlockEmails, TypeOK
  <2> QED
    BY <2>1, <2>2
<1> HIDE DEF AccountInv, IndInv
<1>a. TypeOK /\ Owned /\ Late /\ Dated /\ RowExpiresWithItsToken /\ OneLateRotation
      /\ Carried /\ Bounded
  BY DEF AccountInv, IndInv
<1>8. Owned'
  <2>1. \A s \in Serial : Exists(s)' => sess'[s].user \in User
    BY <1>a, <1>2, <1>3 DEF Owned, Exists, NewRow
  <2>2. ASSUME NEW q \in Req \ {r}
        PROVE  /\ pc'[q] \in LoggingIn \cup Registering => who'[q] \in User
               /\ pc'[q] \in Refreshing => who'[q] = tok'[q].sub
               /\ pc'[q] \in {"refreshUser", "refreshRotate", "refreshCommit"} =>
                     who'[q] = sess'[tok'[q].sid].user
               /\ pc'[q] \in {"refreshRotate", "refreshCommit"} =>
                     users'[who'[q]] # "absent"
               /\ pc'[q] = "registerCommit" =>
                     users'[who'[q]] = "absent" /\ emailLock'[who'[q]] = q
    BY <1>a, <1>1, <1>4, <1>5, <1>6, <1>7 DEF Owned
  <2> QED
    BY <1>1, <2>1, <2>2 DEF Owned
<1>9. Late'
  <2>1. \A x \in spent : x.sid \in Serial
    BY <1>a DEF TypeOK, Spent
  <2> QED
    BY <1>a, <1>1, <1>4, <1>5, <2>1 DEF Late, Owned, Exists
<1>10. Dated'
  <2>1. SidOf(r)' = serial[r] /\ \A q \in Req : SidOf(q)' = SidOf(q)
    BY <1>1, <1>2 DEF SidOf
  <2>2. \A q \in Req \ {r} : answer'[q] = "tokens" =>
          Exists(SidOf(q)) /\ SidOf(q) \in Serial
    BY <1>a, <1>1, TypeFacts DEF Carried
  <2> QED
    BY <1>a, <1>1, <1>3, <1>4, <2>1, <2>2 DEF Dated, NewRow
<1>11. RowExpiresWithItsToken'
  <2>1. \A t \in delivered : Exists(t.sid) /\ t.sid \in Serial
    BY <1>a, TypeFacts DEF Bounded
  <2> QED
    BY <1>a, <1>1, <1>4, <2>1 DEF RowExpiresWithItsToken
<1>12. OneLateRotation'
  BY <1>a, <1>1 DEF OneLateRotation
<1> QED
  BY <1>8, <1>9, <1>10, <1>11, <1>12 DEF AccountInv

\* A logout commits: the row keeps its user, token and expiry.
LEMMA LogoutAccount ==
    ASSUME AccountInv, IndInv', NEW r \in Req, LogoutCommit(r)
    PROVE  AccountInv'
<1> USE DEF AccountInv
<1>1. /\ UNCHANGED <<users, emailLock, spent, delivered, serial, tok, who, exp>>
      /\ pc'[r] = "answer" /\ answer'[r] = "noContent"
      /\ \A q \in Req \ {r} : pc'[q] = pc[q] /\ answer'[q] = answer[q]
  BY DEF LogoutCommit, Reply, Goto, IndInv, TypeOK, env, args
<1>2. \A s \in Serial : /\ sess'[s].user = sess[s].user /\ sess'[s].hash = sess[s].hash
                        /\ sess'[s].exp = sess[s].exp /\ Exists(s)' = Exists(s)
  <2>1. pc[r] = "logoutCommit" /\ tok[r].sid \in Serial /\ Exists(tok[r].sid)
    BY TypeFacts DEF LogoutCommit, Reply, Goto, IndInv, Carried, Bounded
  <2> QED
    BY <2>1 DEF LogoutCommit, Revoked, Exists, IndInv, TypeOK
<1>3. /\ \A q \in Req : tok[q].sid \in Serial /\ SidOf(q) \in Serial /\ SidOf(q)' = SidOf(q)
      /\ \A t \in delivered : t.sid \in Serial
      /\ \A x \in spent : x.sid \in Serial
  BY <1>1, TypeFacts DEF IndInv, TypeOK, Spent, SidOf
<1> HIDE DEF Serial
<1>4. Owned'
  BY <1>1, <1>2, <1>3 DEF Owned
<1>5. Late'
  BY <1>1, <1>2, <1>3 DEF Late
<1>6. Dated' /\ RowExpiresWithItsToken' /\ OneLateRotation'
  BY <1>1, <1>2, <1>3 DEF Dated, RowExpiresWithItsToken, OneLateRotation
<1> QED
  BY <1>4, <1>5, <1>6

\* A rotation commits.  For an account that is no longer active it is the first:
\* after another the token this request presented would not be the session's.
LEMMA RotationAccount ==
    ASSUME AccountInv, IndInv', NEW r \in Req, RefreshCommit(r)
    PROVE  AccountInv'
<1> DEFINE sid == tok[r].sid
           x0 == [sid |-> tok[r].sid, old |-> tok[r].jti,
                  new |-> serial[r], owner |-> Owner(r)]
<1>a. /\ TypeOK /\ Owned /\ Late /\ Dated /\ RowExpiresWithItsToken
      /\ OneLateRotation /\ Fresh /\ Bounded /\ Carried /\ Locked /\ WinnerKeepsSession
  BY DEF AccountInv, IndInv
<1>1. /\ UNCHANGED <<users, emailLock, delivered, serial, tok, who, exp>>
      /\ pc[r] = "refreshCommit" /\ pc'[r] = "answer"
      /\ answer'[r] = "tokens"
      /\ \A q \in Req \ {r} : pc'[q] = pc[q] /\ answer'[q] = answer[q]
  BY <1>a DEF RefreshCommit, Reply, Goto, TypeOK, args
<1>2. /\ tok[r] \in delivered /\ tok[r] # NoToken
      /\ sid \in Serial /\ Exists(sid) /\ sess[sid].hash = tok[r].jti
      /\ \A t \in delivered : t.jti # serial[r]
  BY <1>a, <1>1, TypeFacts DEF Carried, Locked, Exists, Bounded, NoToken, Fresh
<1>3. /\ \A s \in Serial : /\ s # sid => sess'[s] = sess[s]
                           /\ sess'[s].user = sess[s].user
                           /\ sess'[s].state = sess[s].state
      /\ sess'[sid].hash = serial[r] /\ sess'[sid].exp = exp[r]
  BY <1>a, <1>2 DEF RefreshCommit, Rotated, TypeOK
<1>4. \A s \in Serial : Exists(s)' = Exists(s)
  BY <1>3 DEF Exists
<1>5. /\ who[r] = sess[sid].user /\ who[r] \in User
      /\ users[who[r]] \in {"active", "disabled"}
  BY <1>a, <1>1, <1>2 DEF Owned, TypeOK
<1>6. /\ spent' = spent \cup {x0} /\ x0.sid = sid
      /\ x0.owner = "inactive" => users[sess[sid].user] = "disabled"
  BY <1>5 DEF RefreshCommit, Owner
<1>7. \A q \in Req : /\ tok[q].sid \in Serial /\ SidOf(q) \in Serial
                     /\ SidOf(q)' = SidOf(q)
  BY <1>a, <1>1, TypeFacts DEF SidOf
<1>8. SidOf(r)' = sid
  BY <1>1, <1>2 DEF SidOf
<1>9. /\ \A t \in delivered : t.sid \in Serial
      /\ \A x \in spent : x.sid \in Serial
  BY <1>a, TypeFacts DEF TypeOK, Spent
<1>10. \A x \in spent : x.owner = "inactive" => x.sid # sid
  BY <1>a, <1>1, <1>2 DEF Late
<1> HIDE DEF x0, sid, Serial
<1>11. Owned'
  BY <1>a, <1>1, <1>3, <1>4, <1>7 DEF Owned
<1>12. Late'
  <2> SUFFICES ASSUME NEW x \in spent', x.owner = "inactive"
               PROVE  /\ Exists(x.sid)' /\ users'[sess'[x.sid].user] = "disabled"
                      /\ \A q \in Req :
                           pc'[q] \in {"refreshRotate", "refreshCommit"}
                           /\ tok'[q].sid = x.sid => tok'[q].jti # sess'[x.sid].hash
    BY DEF Late
  <2>1. CASE x \in spent
    BY <1>a, <1>1, <1>3, <1>4, <1>9, <1>10, <2>1 DEF Late
  <2>2. CASE x = x0
    <3>1. \A q \in Req : pc'[q] \in {"refreshRotate", "refreshCommit"} =>
            tok[q] \in delivered
      BY <1>a, <1>1 DEF Carried
    <3> QED
      BY <1>1, <1>2, <1>3, <1>4, <1>6, <2>2, <3>1
  <2> QED
    BY <1>6, <2>1, <2>2
<1>13. Dated'
  <2>1. ASSUME NEW q \in Req \ {r}, answer'[q] = "tokens"
        PROVE  sess'[SidOf(q)'].exp = exp'[q]
    <3>1. answer[q] = "tokens" /\ pc[q] = "answer"
      BY <1>a, <1>1, <2>1 DEF Carried
    <3>2. sess[SidOf(q)].hash = serial[q] /\ sess[SidOf(q)].exp = exp[q]
      BY <1>a, <3>1 DEF WinnerKeepsSession, Dated
    <3>3. tok[r].jti # serial[q]
      BY <1>a, <1>2, <3>1 DEF Fresh
    <3> QED
      BY <1>1, <1>2, <1>3, <1>7, <3>2, <3>3
  <2> QED
    BY <1>1, <1>3, <1>8, <2>1 DEF Dated
<1>14. RowExpiresWithItsToken'
  BY <1>a, <1>1, <1>2, <1>3, <1>9 DEF RowExpiresWithItsToken
<1>15. OneLateRotation'
  BY <1>a, <1>6, <1>10 DEF OneLateRotation
<1> QED
  BY <1>11, <1>12, <1>13, <1>14, <1>15 DEF AccountInv

LEMMA AccountStep == AccountInv /\ [Next]_vars => AccountInv'
<1> SUFFICES ASSUME AccountInv, [Next]_vars PROVE AccountInv'
  OBVIOUS
<1>1. IndInv' /\ TypeOK
  BY IndStep DEF AccountInv, IndInv
<1>2. ASSUME NEW r \in Req, NEW first \in {"refreshLoad", "logoutLoad"},
             ReceiveToken(r, first)
      PROVE  AccountInv'
  <2>1. PICK t \in delivered :
          IF Decodes(t)
            THEN Receive(r, first, t, t.sub) /\ UNCHANGED answer
            ELSE /\ Receive(r, "answer", t, t.sub)
                 /\ answer' = [answer EXCEPT ![r] = "unauthorized"]
    BY <1>2 DEF ReceiveToken
  <2>2. UNCHANGED <<db, delivered, spent, exp>>
    BY <1>2 DEF ReceiveToken, db
  <2>3. pc[r] = "idle" /\ answer[r] = "none"
    BY <2>1 DEF Receive, Goto, AccountInv, IndInv, Carried
  <2>4. Local(r)
    <3>1. CASE Decodes(t)
      BY <1>1, <2>1, <2>2, <2>3, <3>1, ReceiveLocal
    <3>2. CASE ~Decodes(t)
      BY <1>1, <2>1, <2>2, <3>2, ReceiveLocal
    <3> QED
      BY <3>1, <3>2
  <2> QED
    BY <1>1, <2>4, LocalStep
<1>3. ASSUME NEW r \in Req, NEW first \in {"loginLoad", "registerCheck"},
             ReceiveEmail(r, first)
      PROVE  AccountInv'
  <2>1. PICK u \in User : Receive(r, first, NoToken, u)
    BY <1>3 DEF ReceiveEmail
  <2>2. UNCHANGED <<db, delivered, spent, exp, answer>>
    BY <1>3 DEF ReceiveEmail, db
  <2>3. answer[r] = "none"
    BY <2>1 DEF Receive, Goto, AccountInv, IndInv, Carried
  <2>4. Local(r)
    BY <1>1, <2>1, <2>2, <2>3, ReceiveLocal
  <2> QED
    BY <1>1, <2>4, LocalStep
<1>4. ASSUME NEW r \in Req, \/ RefreshLoad(r) \/ RefreshUser(r) \/ RefreshRotate(r)
                            \/ LogoutLoad(r) \/ LogoutRevoke(r) \/ LoginLoad(r)
                            \/ RegisterCheck(r) \/ RegisterInsert(r) \/ Abort(r)
      PROVE  AccountInv'
  BY <1>1, <1>4, WorkLocal, LocalStep
<1>5. ASSUME NEW u \in User, Disable(u) PROVE AccountInv'
  <2>1. /\ UNCHANGED <<sess, spent, delivered, emailLock, serial, tok, who, exp, pc,
                       answer>>
        /\ users[u] = "active" /\ users' = [users EXCEPT ![u] = "disabled"]
    BY <1>5 DEF Disable, env, args
  <2>2. Owned'
    BY <1>1, <2>1 DEF AccountInv, Owned, TypeOK, Exists
  <2>3. Late'
    BY <1>1, <2>1 DEF AccountInv, Late, TypeOK, Exists
  <2>4. Dated' /\ RowExpiresWithItsToken' /\ OneLateRotation'
    BY <2>1 DEF AccountInv, Dated, RowExpiresWithItsToken, OneLateRotation, SidOf
  <2> QED
    BY <1>1, <2>2, <2>3, <2>4 DEF AccountInv
<1>6. CASE Tick \/ UNCHANGED vars
  <2>1. UNCHANGED <<sess, spent, delivered, users, emailLock, serial, tok, who, exp, pc,
                    answer>>
    BY <1>6 DEF Tick, vars, db, env, args
  <2> QED
    BY <1>1, <2>1 DEF AccountInv, Owned, Late, Dated, RowExpiresWithItsToken,
                      OneLateRotation, Exists, SidOf
<1> QED
  BY <1>1, <1>2, <1>3, <1>4, <1>5, <1>6, DeliverAccount, OpenAccount, LogoutAccount,
     RotationAccount DEF Next, Steps, ReceiveRefresh, ReceiveLogout, ReceiveLogin,
     ReceiveRegister

LEMMA AccountInductive == Spec => []AccountInv
<1>1. Init => AccountInv
  BY IndInit DEF Init, AccountInv, Owned, Late, Dated, RowExpiresWithItsToken,
                 OneLateRotation, Exists, NoRow
<1> QED
  BY <1>1, AccountStep, PTL DEF Spec

\* The column and the claim agree on when a session's token expires.
THEOREM RowsExpireWithTheirTokens == Spec => []RowExpiresWithItsToken
BY AccountInductive, PTL DEF AccountInv

\* Disabling an account leaves each of its sessions one rotation at most.
THEOREM DisabledAccountsRotateOnce == Spec => []OneLateRotation
BY AccountInductive, PTL DEF AccountInv

-----------------------------------------------------------------------------
(* What a step may do to the rows *)

\* The four ways a step treats the table of sessions and the history.
Unwritten     == UNCHANGED <<sess, spent>>
Opens(r)      == /\ ~Exists(serial[r]) /\ serial[r] \in Serial
                 /\ sess' = [sess EXCEPT ![serial[r]] = NewRow(r)]
                 /\ UNCHANGED spent
Revokes(r)    == /\ Exists(tok[r].sid) /\ tok[r].sid \in Serial
                 /\ sess' = [sess EXCEPT ![tok[r].sid] = Revoked(r, @)]
                 /\ UNCHANGED spent
Rotates(r)    == /\ sess[tok[r].sid].state = "open" /\ tok[r].sid \in Serial
                 /\ sess[tok[r].sid].hash = tok[r].jti
                 /\ sess' = [sess EXCEPT ![tok[r].sid] = Rotated(r, @)]
                 /\ \E x : x.old = tok[r].jti /\ spent' = spent \cup {x}

LEMMA RowSteps ==
    ASSUME IndInv, [Next]_vars
    PROVE  \/ Unwritten
           \/ \E r \in Req : /\ pc[r] \in Working
                             /\ Opens(r) \/ Revokes(r) \/ Rotates(r)
<1>1. ASSUME NEW r \in Req, LoginCommit(r) \/ RegisterCommit(r)
      PROVE  pc[r] \in Working /\ Opens(r)
  BY <1>1, TypeFacts DEF LoginCommit, RegisterCommit, Reply, Goto, Opens, env,
                         IndInv, Fresh
<1>2. ASSUME NEW r \in Req, LogoutCommit(r)
      PROVE  pc[r] \in Working /\ Revokes(r)
  BY <1>2, TypeFacts DEF LogoutCommit, Reply, Goto, Revokes, env, IndInv,
                         Carried, Bounded
<1>3. ASSUME NEW r \in Req, RefreshCommit(r)
      PROVE  pc[r] \in Working /\ Rotates(r)
  <2> DEFINE x == [sid |-> tok[r].sid, old |-> tok[r].jti,
                   new |-> serial[r], owner |-> Owner(r)]
  <2>1. x.old = tok[r].jti /\ spent' = spent \cup {x}
    BY <1>3 DEF RefreshCommit
  <2> HIDE DEF x
  <2> QED
    BY <1>3, <2>1, TypeFacts DEF RefreshCommit, Reply, Goto, Rotates, IndInv,
                                 Locked
<1>4. ASSUME NEW r \in Req,
             \/ RefreshLoad(r) \/ RefreshUser(r) \/ RefreshRotate(r)
             \/ LogoutLoad(r) \/ LogoutRevoke(r) \/ LoginLoad(r)
             \/ RegisterCheck(r) \/ RegisterInsert(r) \/ Deliver(r) \/ Abort(r)
      PROVE  Unwritten
  BY <1>4 DEF Unwritten, RefreshLoad, RefreshUser, RefreshRotate, LogoutLoad,
              LogoutRevoke, LoginLoad, RegisterCheck, RegisterInsert, Deliver,
              Abort, db, env
<1>5. ASSUME NEW r \in Req, \/ ReceiveRefresh(r) \/ ReceiveLogout(r)
                            \/ ReceiveLogin(r) \/ ReceiveRegister(r)
      PROVE  Unwritten
  BY <1>5 DEF Unwritten, ReceiveRefresh, ReceiveLogout, ReceiveLogin,
              ReceiveRegister, ReceiveToken, ReceiveEmail, db
<1>6. (\E u \in User : Disable(u)) \/ Tick \/ UNCHANGED vars => Unwritten
  BY DEF Unwritten, Disable, Tick, vars, db, env
<1> QED
  BY <1>1, <1>2, <1>3, <1>4, <1>5, <1>6 DEF Next, Steps

\* No step, not even of a refresh already in flight, changes a revoked session.
THEOREM RevocationIsForever == Spec => RevokedIsFrozen
<1>1. ASSUME IndInv, [Next]_vars, NEW s \in Serial, sess[s].state = "revoked"
      PROVE  sess'[s] = sess[s]
  <2>1. CASE Unwritten
    BY <2>1 DEF Unwritten
  <2>2. ASSUME NEW r \in Req, Opens(r) PROVE sess'[s] = sess[s]
    BY <1>1, <2>2 DEF Opens, Exists, IndInv, TypeOK
  <2>3. ASSUME NEW r \in Req, Revokes(r) PROVE sess'[s] = sess[s]
    <3>1. sess[s] \in Row
      BY <1>1 DEF IndInv, TypeOK
    <3>2. Revoked(r, sess[s]) = sess[s]
      BY <1>1, <3>1 DEF Revoked, Row
    <3> QED
      BY <1>1, <2>3, <3>2 DEF Revokes, IndInv, TypeOK
  <2>4. ASSUME NEW r \in Req, Rotates(r) PROVE sess'[s] = sess[s]
    BY <1>1, <2>4 DEF Rotates, IndInv, TypeOK
  <2> QED
    BY <1>1, <2>1, <2>2, <2>3, <2>4, RowSteps
<1>2. IndInv /\ [Next]_vars =>
        [\A s \in Serial : sess[s].state = "revoked" => sess'[s] = sess[s]]_vars
  BY <1>1
<1> QED
  BY <1>2, Inductive, PTL DEF Spec, RevokedIsFrozen

-----------------------------------------------------------------------------
(* Refinement *)

LEMMA LedgerInit == Init => Ledger!Init
BY BoundsAssumption DEF Init, Ledger!Init, NoRow

LEMMA LedgerStep ==
    ASSUME IndInv, [Next]_vars
    PROVE  [Ledger!Next]_(Ledger!ledger)
<1> DEFINE state == [s \in Serial |-> sess[s].state]
           head  == [s \in Serial |-> sess[s].hash]
           redeemed == {x.old : x \in spent}
<1>1. CASE Unwritten
  BY <1>1 DEF Unwritten, Ledger!ledger
<1>2. ASSUME NEW r \in Req, pc[r] \in Working PROVE Ledger!Unseen(serial[r])
  BY <1>2, TypeFacts DEF IndInv, Fresh, Ledger!Unseen, Ledger!Held
<1>3. ASSUME NEW r \in Req, pc[r] \in Working, Opens(r) PROVE Ledger!Next
  <2>1. /\ state' = [state EXCEPT ![serial[r]] = "open"]
        /\ head' = [head EXCEPT ![serial[r]] = serial[r]]
        /\ state[serial[r]] = "absent"
        /\ redeemed' = redeemed
    BY <1>3 DEF Opens, Exists, NewRow, IndInv, TypeOK
  <2>2. PICK n \in Serial : n = serial[r]
    BY <1>3 DEF Opens
  <2>3. Ledger!Open(n, n)
    BY <1>2, <1>3, <2>1, <2>2 DEF Ledger!Open, Ledger!Unseen
  <2> QED
    BY <2>3 DEF Ledger!Next
<1>4. ASSUME NEW r \in Req, Revokes(r)
      PROVE  Ledger!Next \/ UNCHANGED Ledger!ledger
  <2>1. /\ state' = [state EXCEPT ![tok[r].sid] = "revoked"]
        /\ head' = head /\ redeemed' = redeemed
        /\ state[tok[r].sid] \in {"open", "revoked"}
    BY <1>4 DEF Revokes, Revoked, Exists, IndInv, TypeOK, Row
  <2>2. CASE state[tok[r].sid] = "open"
    BY <1>4, <2>1, <2>2 DEF Ledger!Next, Ledger!Revoke, Revokes
  <2>3. CASE state[tok[r].sid] = "revoked"
    <3>1. state' = state
      BY <1>4, <2>1, <2>3 DEF Revokes
    <3> QED
      BY <2>1, <3>1 DEF Ledger!ledger
  <2> QED
    BY <2>1, <2>2, <2>3
<1>5. ASSUME NEW r \in Req, pc[r] \in Working, Rotates(r) PROVE Ledger!Next
  <2>1. /\ state' = state
        /\ head' = [head EXCEPT ![tok[r].sid] = serial[r]]
        /\ state[tok[r].sid] = "open" /\ head[tok[r].sid] = tok[r].jti
    BY <1>5 DEF Rotates, Rotated, IndInv, TypeOK
  <2>2. redeemed' = redeemed \cup {tok[r].jti}
    BY <1>5 DEF Rotates
  <2>3. tok[r].jti \notin redeemed
    BY <1>5 DEF IndInv, Heads, Exists, Rotates
  <2>4. PICK s, n \in Serial : s = tok[r].sid /\ n = serial[r]
    BY <1>5, TypeFacts DEF Rotates, IndInv
  <2>5. Ledger!Redeem(s, n)
    BY <1>2, <1>5, <2>1, <2>2, <2>3, <2>4 DEF Ledger!Redeem, Ledger!Unseen
  <2> QED
    BY <2>5 DEF Ledger!Next
<1> QED
  BY <1>1, <1>3, <1>4, <1>5, RowSteps

\* The service, with its concurrent handlers, transactions, crashes and lost
\* responses, implements the ledger of refresh tokens.
THEOREM ImplementsLedger == Spec => LedgerSpec
<1>1. IndInv /\ [Next]_vars => [Ledger!Next]_(Ledger!ledger)
  BY LedgerStep
<1> QED
  BY LedgerInit, <1>1, Inductive, PTL DEF Spec, LedgerSpec, Ledger!Spec
=============================================================================
