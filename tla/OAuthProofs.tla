----------------------------- MODULE OAuthProofs -----------------------------
(***************************************************************************)
(* What TLAPS proves of OAuth for every number of calls, tokens and        *)
(* restarts.                                                               *)
(***************************************************************************)
EXTENDS OAuth, TLAPS

Inside == {"check", "ask", "authorize", "browser", "reply", "save", "write"}

(* The places between the server's answer and the end of saveToken. *)
Renewing == {"reply", "save", "write"}

(* A call is inside GetToken exactly while it holds the mutex.             *)
MutexInv ==
  /\ pc \in [Calls -> Inside \cup {"idle", "waiting", "done"}]
  /\ \A c \in Calls : pc[c] \in Inside <=> mu = c

TokenType == [access : Int, refresh : Int, expires : Int]

(* The token in memory is as new as any that was returned.                 *)
AgeInv ==
  /\ now \in Nat /\ issued \in Nat /\ newest \in Nat /\ newest <= issued
  /\ token \in TokenType /\ file \in TokenType
  /\ reply \in [Calls -> TokenType] /\ got \in [Calls -> Int]
  /\ token.access <= issued /\ file.access <= issued
  /\ token.access > 0 => token.access >= newest
  /\ token = NoToken => newest = 0
  /\ \A c \in Calls : pc[c] = "reply" =>
       /\ reply[c].access \in 0 .. issued
       /\ reply[c].access > 0 => reply[c].access >= newest

(* Unless it is being renewed, or is lost, memory, file and server have    *)
(* the same refresh token; while it is renewed, the one on the way works.  *)
AgreeInv ==
  /\ ~lost /\ (\A c \in Calls : pc[c] \notin Renewing) =>
       /\ file.refresh \in accepted
       /\ token # NoToken => token = file
  /\ \A c \in Calls :
       /\ pc[c] = "reply" => reply[c].refresh \in accepted \cup {0}
       /\ pc[c] \in {"save", "write"} => token.refresh \in accepted \cup {0}

OAuthInv == MutexInv /\ AgeInv /\ AgreeInv

-----------------------------------------------------------------------------

(* Whoever is inside of GetToken holds the mutex, whatever step is taken. *)
LEMMA MutexStep ==
  ASSUME MutexInv, [Next]_vars
  PROVE  MutexInv'
<1> USE OAuthAssumption DEF MutexInv, Inside, Goto, Return, Failed
<1>1. ASSUME NEW c \in Calls, Call(c) \/ Cancel(c) PROVE MutexInv'
  BY <1>1 DEF Call, Cancel
<1>2. ASSUME NEW c \in Calls, GetToken(c) PROVE MutexInv'
  BY <1>2 DEF GetToken, Lock, ReturnCached, refresh, NeedsBrowser
<1>3. ASSUME NEW c \in Calls, authorize(c) PROVE MutexInv'
  BY <1>3 DEF authorize, CannotListen, OpenBrowser, CodeArrives, GiveUp
<1>4. ASSUME NEW c \in Calls, exchangeToken(c) PROVE MutexInv'
  <2>1. CASE ServerIssues(c) \/ AnswerWithoutToken(c) \/ Accept(c)
    BY <2>1 DEF ServerIssues, AnswerWithoutToken, Accept
  <2>2. CASE RequestFails(c)
    BY <2>2 DEF RequestFails, ExchangeFailed
  <2> QED
    BY <1>4, <2>1, <2>2 DEF exchangeToken
<1>5. ASSUME NEW c \in Calls, saveToken(c) PROVE MutexInv'
  BY <1>5 DEF saveToken, Truncate, Write, SaveFails, ExchangeFailed
<1>6. CASE Callback \/ Tick \/ UNCHANGED vars
  BY <1>6 DEF Callback, Tick, vars
<1>7. CASE Restart
  BY <1>7 DEF Restart
<1> QED
  BY <1>1, <1>2, <1>3, <1>4, <1>5, <1>6, <1>7 DEF Next

(* The parts of a step that the two other invariants look at: what happens *)
(* inside is done by one call, while all others stand outside.             *)
LEMMA AgeStep ==
  ASSUME MutexInv, AgeInv, [Next]_vars
  PROVE  AgeInv'
<1> USE DEF Goto, memory, exchange, callback, server, history
<1>0. /\ now \in Nat /\ issued \in Nat /\ newest \in Nat /\ newest <= issued
      /\ token \in TokenType /\ file \in TokenType
      /\ reply \in [Calls -> TokenType] /\ got \in [Calls -> Int]
      /\ pc \in [Calls -> Inside \cup {"idle", "waiting", "done"}]
  BY DEF AgeInv, MutexInv
<1>1. ASSUME UNCHANGED <<token, file, reply, issued, newest, got>>, now' \in Nat,
             \A c \in Calls : pc'[c] = "reply" => pc[c] = "reply"
      PROVE  AgeInv'
  BY <1>1 DEF AgeInv
(* A failed call returns no token. *)
<1>2. ASSUME NEW c \in Calls, Failed(c), UNCHANGED <<now, token, file, reply, issued>>
      PROVE  AgeInv'
  <2>1. newest' = newest /\ got' \in [Calls -> Int]
    BY <1>0, <1>2 DEF Failed, Return, NoAnswer
  <2>2. \A d \in Calls : pc'[d] = "reply" => pc[d] = "reply"
    BY <1>0, <1>2 DEF Failed, Return
  <2> QED
    BY <1>2, <2>1, <2>2 DEF AgeInv
<1>3. ASSUME NEW c \in Calls, ExchangeFailed(c), UNCHANGED <<now, token, file, reply, issued>>
      PROVE  AgeInv'
  <2>1. CASE Failed(c)
    BY <1>2, <1>3, <2>1
  <2>2. CASE Goto(c, "authorize") /\ UNCHANGED <<mu, got, newest>>
    BY <1>0, <1>1, <1>3, <2>2
  <2> QED
    BY <1>3, <2>1, <2>2 DEF ExchangeFailed
<1>4. ASSUME NEW c \in Calls, Call(c) \/ Lock(c) \/ Cancel(c) \/ OpenBrowser(c) \/ CodeArrives(c)
      PROVE  AgeInv'
  BY <1>0, <1>1, <1>4 DEF Call, Lock, Cancel, OpenBrowser, CodeArrives
<1>5. Loaded \in TokenType /\ Loaded.access <= issued
      /\ (Loaded.access > 0 => Loaded.access >= newest) /\ (Loaded = NoToken => newest = 0)
  <2>1. CASE token = NoToken
    BY <1>0, <2>1 DEF AgeInv, Loaded, TokenType
  <2>2. CASE token # NoToken
    BY <1>0, <2>2 DEF AgeInv, Loaded
  <2> QED
    BY <2>1, <2>2
<1>6. ASSUME NEW c \in Calls, ReturnCached(c) PROVE AgeInv'
  <2>1. /\ token' = Loaded /\ UNCHANGED <<now, file, reply, issued>>
        /\ newest' = IF Loaded.access > newest THEN Loaded.access ELSE newest
        /\ got' = [got EXCEPT ![c] = Loaded.access]
        /\ Goto(c, "done") /\ Loaded # NoToken
    BY <1>6 DEF ReturnCached, Return, Valid
  <2>2. Loaded.access \in Int
    BY <1>5 DEF TokenType
  <2>3. got' \in [Calls -> Int] /\ newest' \in Nat /\ newest' <= issued
        /\ (Loaded.access > 0 => Loaded.access >= newest')
    BY <1>0, <1>5, <2>1, <2>2
  <2>4. \A d \in Calls : pc'[d] # "reply"
    <3>1. \A d \in Calls \ {c} : pc[d] \notin Inside
      BY <1>6 DEF ReturnCached, MutexInv, Inside
    <3> QED
      BY <1>0, <2>1, <3>1 DEF Inside
  <2> QED
    BY <1>0, <1>5, <2>1, <2>3, <2>4 DEF AgeInv
<1>7. ASSUME NEW c \in Calls, refresh(c) \/ NeedsBrowser(c) PROVE AgeInv'
  <2>1. /\ token' = Loaded /\ UNCHANGED <<now, file, reply, issued, newest, got>>
        /\ \E l \in {"ask", "authorize"} : Goto(c, l)
    BY <1>7 DEF refresh, NeedsBrowser
  <2>2. \A d \in Calls : pc'[d] = "reply" => pc[d] = "reply"
    BY <1>0, <2>1
  <2> QED
    BY <1>5, <2>1, <2>2 DEF AgeInv
<1>8. ASSUME NEW c \in Calls, CannotListen(c) \/ GiveUp(c) PROVE AgeInv'
  BY <1>2, <1>8 DEF CannotListen, GiveUp
<1>9. ASSUME NEW c \in Calls, RequestFails(c) \/ SaveFails(c) PROVE AgeInv'
  BY <1>3, <1>9 DEF RequestFails, SaveFails
<1>10. ASSUME NEW c \in Calls, NEW n, NEW r \in Int, NEW e \in Int,
              reply' = [reply EXCEPT ![c] = Token(n, r, e)], Goto(c, "reply"),
              issued' \in Nat, issued' >= issued, n \in 0 .. issued', n > 0 => n >= newest,
              pc[c] = "ask", UNCHANGED <<now, token, file, got, newest>>
       PROVE  AgeInv'
  <2>1. reply'[c] = Token(n, r, e) /\ reply' \in [Calls -> TokenType]
    BY <1>0, <1>10 DEF Token, TokenType
  <2>2. \A d \in Calls \ {c} : pc'[d] # "reply"
    BY <1>0, <1>10 DEF MutexInv, Inside
  <2>3. \A d \in Calls : pc'[d] = "reply" => reply'[d].access = n
    BY <2>1, <2>2 DEF Token
  <2>4. token.access \in Int /\ file.access \in Int
    BY <1>0 DEF TokenType
  <2>5. token.access <= issued' /\ file.access <= issued' /\ newest <= issued'
    BY <1>0, <1>10, <2>4 DEF AgeInv
  <2> QED
    BY <1>0, <1>10, <2>1, <2>3, <2>5 DEF AgeInv
<1>11. ASSUME NEW c \in Calls, ServerIssues(c) PROVE AgeInv'
  <2>1. PICK life \in Lifetimes :
          \E r \in {issued', 0} \cup Spent(c) :
            reply' = [reply EXCEPT ![c] = Token(issued', r, now + life)]
    BY <1>11 DEF ServerIssues
  <2>2. Spent(c) \subseteq Int /\ life \in Nat
    BY <1>0, OAuthAssumption DEF Spent, TokenType
  <2>3. /\ issued' = issued + 1 /\ pc[c] = "ask" /\ Goto(c, "reply")
        /\ UNCHANGED <<now, token, file, got, newest>>
    BY <1>11 DEF ServerIssues
  <2>4. /\ issued' \in Nat /\ issued' >= issued /\ issued' \in 0 .. issued'
        /\ issued' >= newest /\ now + life \in Int
    BY <1>0, <2>2, <2>3
  <2>5. PICK r \in Int : reply' = [reply EXCEPT ![c] = Token(issued', r, now + life)]
    <3>1. {issued', 0} \cup Spent(c) \subseteq Int
      BY <2>2, <2>4
    <3> QED
      BY <2>1, <3>1
  <2> HIDE DEF Goto
  <2> QED
    BY <1>10, <2>3, <2>4, <2>5
<1>12. ASSUME NEW c \in Calls, AnswerWithoutToken(c) PROVE AgeInv'
  <2>1. /\ issued' = issued /\ pc[c] = "ask" /\ Goto(c, "reply")
        /\ reply' = [reply EXCEPT ![c] = Token(0, 0, now)]
        /\ UNCHANGED <<now, token, file, got, newest>>
    BY <1>12 DEF AnswerWithoutToken
  <2>2. /\ issued' \in Nat /\ issued' >= issued /\ 0 \in 0 .. issued' /\ now \in Int
        /\ 0 \in Int /\ (0 > 0 => 0 >= newest)
    BY <1>0, <2>1
  <2> HIDE DEF Goto
  <2> QED
    BY <1>10, <2>1, <2>2, Zenon
<1>13. ASSUME NEW c \in Calls, Accept(c) PROVE AgeInv'
  <2>1. /\ token' = reply[c] /\ UNCHANGED <<now, file, reply, issued, newest, got>>
        /\ pc[c] = "reply" /\ Goto(c, "save")
    BY <1>13 DEF Accept
  <2>2. /\ reply[c] \in TokenType /\ reply[c].access \in 0 .. issued
        /\ reply[c].access > 0 => reply[c].access >= newest
    BY <1>0, <2>1 DEF AgeInv
  <2>3. token' # NoToken
    BY <2>1, <2>2 DEF NoToken, Token
  <2>4. \A d \in Calls : pc'[d] = "reply" => pc[d] = "reply"
    BY <1>0, <2>1
  <2> QED
    BY <1>0, <2>1, <2>2, <2>3, <2>4 DEF AgeInv
<1>14. ASSUME NEW c \in Calls, Truncate(c) PROVE AgeInv'
  <2>1. NoToken \in TokenType /\ NoToken.access <= issued
    BY <1>0 DEF NoToken, Token, TokenType
  <2>2. /\ file' = NoToken /\ Goto(c, "write")
        /\ UNCHANGED <<now, token, reply, issued, newest, got>>
    BY <1>14 DEF Truncate
  <2>3. \A d \in Calls : pc'[d] = "reply" => pc[d] = "reply"
    BY <1>0, <2>2
  <2> QED
    BY <2>1, <2>2, <2>3 DEF AgeInv
<1>15. ASSUME NEW c \in Calls, Write(c) PROVE AgeInv'
  <2>1. /\ file' = token /\ UNCHANGED <<now, token, reply, issued>>
        /\ newest' = IF token.access > newest THEN token.access ELSE newest
        /\ got' = [got EXCEPT ![c] = token.access] /\ Goto(c, "done")
    BY <1>15 DEF Write, Return
  <2>2. token.access \in Int /\ token.access <= issued
    BY <1>0 DEF TokenType, AgeInv
  <2>3. /\ got' \in [Calls -> Int] /\ newest' \in Nat /\ newest' <= issued
        /\ token.access > 0 => token.access >= newest'
        /\ token = NoToken => newest' = newest
    BY <1>0, <2>1, <2>2 DEF AgeInv, NoToken, Token
  <2>4. \A d \in Calls : pc'[d] # "reply"
    BY <1>0, <1>15, <2>1 DEF Write, MutexInv, Inside
  <2> QED
    BY <1>0, <2>1, <2>2, <2>3, <2>4 DEF AgeInv
<1>16. CASE Callback \/ Tick \/ UNCHANGED vars
  <2>1. /\ UNCHANGED <<token, file, reply, issued, newest, got, pc>>
        /\ now' \in Nat
    BY <1>0, <1>16 DEF Callback, Tick, vars
  <2> QED
    BY <1>1, <2>1
<1>17. CASE Restart
  <2>1. /\ token' = NoToken /\ newest' = 0 /\ UNCHANGED <<now, file, reply, issued, got>>
        /\ \A d \in Calls : pc'[d] # "reply"
    BY <1>17 DEF Restart
  <2>2. NoToken \in TokenType /\ NoToken.access = -1
    BY DEF NoToken, Token, TokenType
  <2> QED
    BY <1>0, <2>1, <2>2 DEF AgeInv
<1> QED
  BY <1>4, <1>6, <1>7, <1>8, <1>9, <1>11, <1>12, <1>13, <1>14, <1>15, <1>16, <1>17
     DEF Next, GetToken, authorize, exchangeToken, saveToken

-----------------------------------------------------------------------------
(* What is between the calls is what the last of them has left.            *)
LEMMA AgreeStep ==
  ASSUME MutexInv, AgeInv, AgreeInv, [Next]_vars
  PROVE  AgreeInv'
<1> USE DEF Goto, memory, exchange, callback, server, history
<1>0. pc \in [Calls -> Inside \cup {"idle", "waiting", "done"}]
  BY DEF MutexInv
<1>a. ASSUME NEW c \in Calls, pc[c] \in Inside
      PROVE  \A d \in Calls \ {c} : pc[d] \notin Renewing
  BY <1>a DEF MutexInv, Inside, Renewing
<1>b. reply \in [Calls -> TokenType]
  BY DEF AgeInv
<1>1. ASSUME UNCHANGED <<token, file, reply, accepted>>, lost => lost',
             \A d \in Calls : pc'[d] \in Renewing => pc'[d] = pc[d],
             lost' \/ \A d \in Calls : pc[d] \in Renewing => pc'[d] \in Renewing
      PROVE  AgreeInv'
  BY <1>1 DEF AgreeInv, Renewing
<1>2. ASSUME NEW c \in Calls, Call(c) \/ Lock(c) \/ Cancel(c) \/ OpenBrowser(c) \/ CodeArrives(c)
                                \/ CannotListen(c) \/ GiveUp(c)
      PROVE  AgreeInv'
  <2>1. /\ UNCHANGED <<token, file, reply, accepted, lost>>
        /\ \E l \in {"waiting", "check", "browser", "ask", "done", pc[c]} : Goto(c, l)
        /\ pc[c] \notin Renewing \/ pc' = pc
    BY <1>0, <1>2 DEF Call, Lock, Cancel, OpenBrowser, CodeArrives, CannotListen, GiveUp, Failed,
                      Return, Renewing
  <2>2. \A d \in Calls : pc'[d] \in Renewing <=> pc[d] \in Renewing /\ pc'[d] = pc[d]
    BY <1>0, <2>1 DEF Renewing
  <2> QED
    BY <1>1, <2>1, <2>2
<1>3. ASSUME NEW c \in Calls, RequestFails(c) \/ SaveFails(c) PROVE AgreeInv'
  <2>1. /\ UNCHANGED <<token, file, reply, accepted>> /\ (lost => lost')
        /\ pc[c] \in Renewing => lost'
        /\ \E l \in {"authorize", "done"} : Goto(c, l)
        /\ pc[c] \in Inside
    BY <1>3 DEF RequestFails, SaveFails, ExchangeFailed, Failed, Return, Renewing, Inside
  <2>2. \A d \in Calls : pc'[d] \in Renewing => pc'[d] = pc[d]
    BY <1>0, <2>1 DEF Renewing
  <2>3. lost' \/ \A d \in Calls : pc[d] \notin Renewing
    BY <1>a, <2>1
  <2> QED
    BY <1>1, <2>1, <2>2, <2>3
<1>4. ASSUME NEW c \in Calls, ReturnCached(c) \/ refresh(c) \/ NeedsBrowser(c)
      PROVE  AgreeInv'
  <2>1. /\ token' = Loaded /\ UNCHANGED <<file, reply, accepted, lost>> /\ pc[c] = "check"
        /\ \E l \in {"done", "ask", "authorize"} : Goto(c, l)
    BY <1>4 DEF ReturnCached, refresh, NeedsBrowser, Return
  <2>2. \A d \in Calls : pc[d] \notin Renewing /\ pc'[d] \notin Renewing
    BY <1>0, <1>a, <2>1 DEF Renewing, Inside
  <2> QED
    BY <2>1, <2>2 DEF AgreeInv, Loaded, Renewing
<1>5. ASSUME NEW c \in Calls, ServerIssues(c) \/ AnswerWithoutToken(c) PROVE AgreeInv'
  <2>1. pc[c] = "ask" /\ Goto(c, "reply")
    BY <1>5 DEF ServerIssues, AnswerWithoutToken
  <2>2. \A d \in Calls \ {c} : reply'[d] = reply[d]
    <3>1. PICK t : reply' = [reply EXCEPT ![c] = t]
      BY <1>5 DEF ServerIssues, AnswerWithoutToken
    <3> QED
      BY <1>b, <3>1
  <2>3. pc'[c] = "reply" /\ \A d \in Calls \ {c} : pc'[d] = pc[d] /\ pc[d] \notin Renewing
    BY <1>0, <1>a, <2>1 DEF Inside
  <2>4. reply'[c].refresh \in accepted' \cup {0}
    <3>1. CASE ServerIssues(c)
      <4>1. PICK life \in Lifetimes :
              \/ /\ accepted' = (accepted \ Spent(c)) \cup {issued'}
                 /\ reply' = [reply EXCEPT ![c] = Token(issued', issued', now + life)]
              \/ /\ \E r \in Spent(c) \cup {0} :
                       reply' = [reply EXCEPT ![c] = Token(issued', r, now + life)]
                 /\ UNCHANGED accepted
        BY <3>1 DEF ServerIssues
      <4>2. Spent(c) \subseteq accepted
        BY <3>1 DEF ServerIssues
      <4> QED
        BY <4>1, <4>2, <1>b DEF Token
    <3>2. CASE AnswerWithoutToken(c)
      BY <1>b, <3>2 DEF AnswerWithoutToken, Token
    <3> QED
      BY <1>5, <3>1, <3>2
  <2> QED
    BY <2>2, <2>3, <2>4 DEF AgreeInv, Renewing
<1>6. ASSUME NEW c \in Calls, Accept(c) PROVE AgreeInv'
  <2>1. /\ token' = reply[c] /\ UNCHANGED <<file, reply, accepted>>
        /\ pc[c] = "reply" /\ Goto(c, "save")
    BY <1>6 DEF Accept
  <2>2. pc'[c] = "save" /\ \A d \in Calls \ {c} : pc'[d] \notin Renewing
    BY <1>0, <1>a, <2>1 DEF Inside
  <2> QED
    BY <2>1, <2>2 DEF AgreeInv, Renewing
<1>7. ASSUME NEW c \in Calls, Truncate(c) PROVE AgreeInv'
  <2>1. /\ UNCHANGED <<token, reply, accepted>> /\ pc[c] = "save" /\ Goto(c, "write")
    BY <1>7 DEF Truncate
  <2>2. pc'[c] = "write" /\ \A d \in Calls \ {c} : pc'[d] \notin Renewing
    BY <1>0, <1>a, <2>1 DEF Inside
  <2> QED
    BY <2>1, <2>2 DEF AgreeInv, Renewing
<1>8. ASSUME NEW c \in Calls, Write(c) PROVE AgreeInv'
  <2>1. /\ file' = token /\ token' = token /\ UNCHANGED <<reply, accepted>>
        /\ pc[c] = "write" /\ Goto(c, "done")
        /\ ~lost' => token.refresh # 0
    BY <1>8 DEF Write, Return
  <2>2. \A d \in Calls : pc'[d] \notin Renewing
    BY <1>0, <1>a, <2>1 DEF Inside, Renewing
  <2>3. token.refresh \in accepted \cup {0}
    BY <2>1 DEF AgreeInv
  <2> QED
    BY <2>1, <2>2, <2>3 DEF AgreeInv, Renewing
<1>9. CASE Callback \/ Tick \/ UNCHANGED vars
  BY <1>1, <1>9 DEF Callback, Tick, vars
<1>10. CASE Restart
  <2>1. /\ token' = NoToken /\ UNCHANGED <<file, accepted>>
        /\ \A d \in Calls : pc'[d] \notin Renewing
    BY <1>10 DEF Restart, Renewing
  <2>2. ~lost' => ~lost /\ \A d \in Calls : pc[d] \notin Renewing
    BY <1>10 DEF Restart, Renewing
  <2> QED
    BY <2>1, <2>2 DEF AgreeInv, Renewing
<1> QED
  BY <1>2, <1>3, <1>4, <1>5, <1>6, <1>7, <1>8, <1>9, <1>10
     DEF Next, GetToken, authorize, exchangeToken, saveToken

-----------------------------------------------------------------------------

(* The three parts together: who is inside, how old the tokens are, and    *)
(* what memory, file and server agree on.                                  *)
THEOREM OAuthCorrect == Spec => []OAuthInv
<1>1. Init => OAuthInv
  <2> SUFFICES ASSUME Init PROVE OAuthInv
    OBVIOUS
  <2>1. MutexInv
    BY OAuthAssumption DEF Init, MutexInv, Inside
  <2>2. NoToken \in TokenType /\ NoToken.access = -1
    BY DEF NoToken, Token, TokenType
  <2>3. AgeInv
    BY <2>2 DEF Init, AgeInv, NoAnswer
  <2>4. AgreeInv
    BY DEF Init, AgreeInv
  <2> QED
    BY <2>1, <2>3, <2>4 DEF OAuthInv
<1>2. OAuthInv /\ [Next]_vars => OAuthInv'
  BY MutexStep, AgeStep, AgreeStep DEF OAuthInv
<1> QED
  BY <1>1, <1>2, PTL DEF Spec

(* Between calls the token file holds a refresh token the server accepts,  *)
(* and memory agrees with it, through every rotation, restart and failed   *)
(* attempt that does not itself lose it.                                   *)
THEOREM RefreshAlwaysKept == Spec => []RefreshKept
<1>1. OAuthInv => RefreshKept
  <2> SUFFICES ASSUME OAuthInv, mu = NoCall, ~lost
               PROVE  file.refresh \in accepted /\ (token # NoToken => token = file)
    BY DEF RefreshKept
  <2>1. \A c \in Calls : pc[c] \notin Renewing
    BY OAuthAssumption DEF OAuthInv, MutexInv, Inside, Renewing
  <2> QED
    BY <2>1 DEF OAuthInv, AgreeInv
<1> QED
  BY <1>1, OAuthCorrect, PTL

(* The mutex is held through refresh, browser and file: no interleaving of *)
(* calls lets one return a token older than another has returned.          *)
THEOREM TokensNeverOlder == Spec => NeverOlder
<1> DEFINE Step == \A c \in Calls : got'[c] # got[c] /\ got'[c] > 0 => got'[c] >= newest
<1>1. OAuthInv /\ [Next]_vars => [Step]_vars
  <2> SUFFICES ASSUME OAuthInv, Next, NEW c \in Calls, got'[c] # got[c], got'[c] > 0
               PROVE  got'[c] >= newest
    OBVIOUS
  <2> USE DEF history
  <2>1. got \in [Calls -> Int] /\ newest \in Nat
    BY DEF OAuthInv, AgeInv
  <2>2. ASSUME NEW d \in Calls, Failed(d) PROVE FALSE
    BY <2>1, <2>2 DEF Failed, Return, NoAnswer
  <2>3. ASSUME NEW d \in Calls, ReturnCached(d) PROVE got'[c] >= newest
    <3>1. got' = [got EXCEPT ![d] = Loaded.access] /\ Loaded # NoToken
      BY <2>3 DEF ReturnCached, Return, Valid
    <3>2. got'[c] = Loaded.access
      BY <2>1, <3>1
    <3>3. Loaded.access > 0 => Loaded.access >= newest
      <4>1. CASE token = NoToken
        <5>1. Loaded = file /\ file \in TokenType /\ newest = 0
          BY <4>1 DEF Loaded, OAuthInv, AgeInv
        <5> QED
          BY <5>1 DEF TokenType
      <4>2. CASE token # NoToken
        BY <4>2 DEF Loaded, OAuthInv, AgeInv
      <4> QED
        BY <4>1, <4>2
    <3> QED
      BY <3>2, <3>3
  <2>4. ASSUME NEW d \in Calls, Write(d) PROVE got'[c] >= newest
    <3>1. got'[c] = token.access
      BY <2>1, <2>4 DEF Write, Return
    <3> QED
      BY <3>1 DEF OAuthInv, AgeInv
  <2>5. got' = got \/ \E d \in Calls : Failed(d) \/ ReturnCached(d) \/ Write(d)
    BY DEF Next, Call, Cancel, GetToken, Lock, refresh, NeedsBrowser, authorize, CannotListen,
           OpenBrowser, CodeArrives, GiveUp, exchangeToken, ServerIssues, AnswerWithoutToken,
           RequestFails, ExchangeFailed, Accept, saveToken, Truncate, SaveFails, Callback,
           Tick, Restart
  <2> QED
    BY <2>2, <2>3, <2>4, <2>5
<1> QED
  BY <1>1, OAuthCorrect, PTL DEF Spec, NeverOlder
=============================================================================
