-------------------------------- MODULE OAuth --------------------------------
(***************************************************************************)
(* internal/auth/oauth.go: concurrent calls of GetToken, which keeps one   *)
(* token in memory and in a file, refreshes it when it has expired, and    *)
(* otherwise sends the user to a browser.                                  *)
(*                                                                         *)
(* A call holds the mutex through everything it waits for: token requests, *)
(* the browser's callback, the file.  The process may be killed at any     *)
(* point; the file survives.  The authorization server is external: it     *)
(* may rotate refresh tokens, leave them out of an answer, or answer with  *)
(* a body that is JSON and no token.  The verifier, the state parameter    *)
(* and the URLs are left out, and so are callbacks that block on a full    *)
(* channel, which the five seconds of Shutdown leave behind.               *)
(***************************************************************************)
EXTENDS Integers

CONSTANTS
  Calls,       \* the calls of GetToken, one goroutine each
  NoCall,      \* nobody holds the mutex
  Lifetimes,   \* the values of expires_in
  MaxIssued,   \* bound on the tokens the server issues
  MaxTime,     \* bound on the clock
  MaxCrashes   \* bound on the restarts

ASSUME OAuthAssumption ==
  /\ NoCall \notin Calls
  /\ Lifetimes \subseteq Nat
  /\ MaxIssued \in Nat /\ MaxTime \in Nat /\ MaxCrashes \in Nat

VARIABLES
  now,
  token,     \* o.token
  file,      \* the token file; NoToken = absent or not JSON
  mu,        \* the call that holds o.mu, or NoCall
  pc,
  ctxDone,   \* is the call's context cancelled
  grant,     \* the grant_type of the call's token request
  reply,     \* the answer to it
  codeCh, errCh,  \* authorize's channels: is there an element
  got,       \* what each call returned
  issued,    \* the tokens issued so far, numbered
  accepted,  \* the refresh tokens the server accepts
  crashes,
  newest,    \* history: the newest token returned since the last start
  lost       \* history: has the server's refresh token been lost

memory   == <<token, file>>
exchange == <<grant, reply>>
callback == <<codeCh, errCh>>
server   == <<issued, accepted>>
history  == <<crashes, newest, lost>>
vars == <<now, memory, mu, pc, ctxDone, exchange, callback, got, server, history>>

(* The n-th token; 0 stands for the empty string. *)
Token(n, refresh, expires) == [access |-> n, refresh |-> refresh, expires |-> expires]
NoToken  == Token(-1, 0, 0)
NoAnswer == -1

Init ==
  /\ now = 0
  /\ token = NoToken /\ file = NoToken
  /\ mu = NoCall
  /\ pc = [c \in Calls |-> "idle"]
  /\ ctxDone = [c \in Calls |-> FALSE]
  /\ grant = [c \in Calls |-> "none"]
  /\ reply = [c \in Calls |-> NoToken]
  /\ codeCh = FALSE /\ errCh = FALSE
  /\ got = [c \in Calls |-> NoAnswer]
  /\ issued = 0 /\ accepted = {}
  /\ crashes = 0 /\ newest = 0
  /\ lost = TRUE

Goto(c, l) == pc' = [pc EXCEPT ![c] = l]

(* return, and the deferred Unlock. *)
Return(c, n) ==
  /\ Goto(c, "done")
  /\ mu' = NoCall
  /\ got' = [got EXCEPT ![c] = n]
  /\ newest' = IF n > newest THEN n ELSE newest

Failed(c) == Return(c, NoAnswer)

-----------------------------------------------------------------------------
(* GetToken                                                                *)

Call(c) ==
  /\ pc[c] = "idle"
  /\ Goto(c, "waiting")
  /\ UNCHANGED <<now, memory, mu, ctxDone, exchange, callback, got, server, history>>

(* Slip: the mutex is not taken. *)
LockShared(c) ==
  /\ pc[c] = "waiting"
  /\ mu' = c /\ Goto(c, "check")
  /\ UNCHANGED <<now, memory, ctxDone, exchange, callback, got, server, history>>

Lock(c) ==
  /\ pc[c] = "waiting" /\ mu = NoCall
  /\ mu' = c /\ Goto(c, "check")
  /\ UNCHANGED <<now, memory, ctxDone, exchange, callback, got, server, history>>

(* loadToken, unless there is a token in memory; then what the token in    *)
(* memory allows.                                                          *)
Loaded == IF token = NoToken THEN file ELSE token
Valid(t) == t # NoToken /\ now < t.expires

ReturnCached(c) ==
  /\ pc[c] = "check" /\ Valid(Loaded)
  /\ token' = Loaded
  /\ Return(c, Loaded.access)
  /\ UNCHANGED <<now, file, ctxDone, exchange, callback, server, crashes, lost>>

refresh(c) ==
  /\ pc[c] = "check" /\ ~Valid(Loaded) /\ Loaded.refresh # 0
  /\ token' = Loaded
  /\ grant' = [grant EXCEPT ![c] = "refresh_token"]
  /\ Goto(c, "ask")
  /\ UNCHANGED <<now, file, mu, ctxDone, reply, callback, got, server, history>>

NeedsBrowser(c) ==
  /\ pc[c] = "check" /\ ~Valid(Loaded) /\ Loaded.refresh = 0
  /\ token' = Loaded
  /\ Goto(c, "authorize")
  /\ UNCHANGED <<now, file, mu, ctxDone, exchange, callback, got, server, history>>

-----------------------------------------------------------------------------
(* authorize                                                               *)

(* The listener or the random numbers fail. *)
CannotListen(c) ==
  /\ pc[c] = "authorize"
  /\ Failed(c)
  /\ UNCHANGED <<now, memory, ctxDone, exchange, callback, server, crashes, lost>>

OpenBrowser(c) ==
  /\ pc[c] = "authorize"
  /\ codeCh' = FALSE /\ errCh' = FALSE
  /\ Goto(c, "browser")
  /\ UNCHANGED <<now, memory, mu, ctxDone, exchange, got, server, history>>

(* The user, or whatever else talks to the local port. *)
Callback ==
  /\ \E c \in Calls : pc[c] = "browser"
  /\ \/ codeCh' = TRUE /\ UNCHANGED errCh
     \/ errCh' = TRUE /\ UNCHANGED codeCh
  /\ UNCHANGED <<now, memory, mu, pc, ctxDone, exchange, got, server, history>>

(* The three cases of the select. *)
CodeArrives(c) ==
  /\ pc[c] = "browser" /\ codeCh
  /\ codeCh' = FALSE
  /\ grant' = [grant EXCEPT ![c] = "authorization_code"]
  /\ Goto(c, "ask")
  /\ UNCHANGED <<now, memory, mu, ctxDone, reply, errCh, got, server, history>>

(* Slip: the caller's context is not looked at. *)
CallbackFailed(c) ==
  /\ pc[c] = "browser" /\ errCh
  /\ Failed(c)
  /\ UNCHANGED <<now, memory, ctxDone, exchange, callback, server, crashes, lost>>

GiveUp(c) ==
  /\ pc[c] = "browser"
  /\ errCh \/ ctxDone[c]
  /\ Failed(c)
  /\ UNCHANGED <<now, memory, ctxDone, exchange, callback, server, crashes, lost>>

-----------------------------------------------------------------------------
(* exchangeToken                                                           *)

Spent(c) == IF grant[c] = "refresh_token" THEN {token.refresh} ELSE {}

(* The server takes the refresh token or the code and issues a token.  It  *)
(* may replace the refresh token, or keep it and repeat it or not.         *)
ServerIssues(c) ==
  /\ pc[c] = "ask" /\ Spent(c) \subseteq accepted /\ issued < MaxIssued
  /\ issued' = issued + 1
  /\ \E life \in Lifetimes :
       \/ /\ accepted' = (accepted \ Spent(c)) \cup {issued'}
          /\ reply' = [reply EXCEPT ![c] = Token(issued', issued', now + life)]
       \/ /\ \E r \in Spent(c) \cup {0} :
               reply' = [reply EXCEPT ![c] = Token(issued', r, now + life)]
          /\ UNCHANGED accepted
  /\ Goto(c, "reply")
  /\ UNCHANGED <<now, memory, mu, ctxDone, grant, callback, got, history>>

(* An answer that is JSON without "error" counts, whatever its status. *)
AnswerWithoutToken(c) ==
  /\ pc[c] = "ask"
  /\ reply' = [reply EXCEPT ![c] = Token(0, 0, now)]
  /\ Goto(c, "reply")
  /\ UNCHANGED <<now, memory, mu, ctxDone, grant, callback, got, server, history>>

(* GetToken goes on to the browser when a refresh fails, for any reason. *)
ExchangeFailed(c) ==
  \/ /\ grant[c] = "refresh_token"
     /\ Goto(c, "authorize")
     /\ UNCHANGED <<mu, got, newest>>
  \/ /\ grant[c] = "authorization_code"
     /\ Failed(c)

(* Refused, no connection, no JSON, or the context is done: before or      *)
(* after the server has done its part.                                     *)
RequestFails(c) ==
  /\ pc[c] \in {"ask", "reply"}
  /\ lost' = (lost \/ pc[c] = "reply")
  /\ ExchangeFailed(c)
  /\ UNCHANGED <<now, memory, ctxDone, exchange, callback, server, crashes>>

(* Slip: the refresh token is kept as long as there is one. *)
AcceptKeeping(c) ==
  /\ pc[c] = "reply"
  /\ token' = IF token.refresh = 0 THEN reply[c]
              ELSE [reply[c] EXCEPT !.refresh = token.refresh]
  /\ lost' = (lost \/ reply[c].refresh = 0)
  /\ Goto(c, "save")
  /\ UNCHANGED <<now, file, mu, ctxDone, exchange, callback, got, server, crashes, newest>>

Accept(c) ==
  /\ pc[c] = "reply"
  /\ token' = reply[c]
  /\ lost' = (lost \/ reply[c].refresh = 0)
  /\ Goto(c, "save")
  /\ UNCHANGED <<now, file, mu, ctxDone, exchange, callback, got, server, crashes, newest>>

(* saveToken: os.WriteFile empties the file before it writes. *)
Truncate(c) ==
  /\ pc[c] = "save"
  /\ file' = NoToken
  /\ Goto(c, "write")
  /\ UNCHANGED <<now, token, mu, ctxDone, exchange, callback, got, server, history>>

Write(c) ==
  /\ pc[c] = "write"
  /\ file' = token
  /\ lost' = ((lost /\ grant[c] = "refresh_token") \/ token.refresh = 0)
  /\ Return(c, token.access)
  /\ UNCHANGED <<now, token, ctxDone, exchange, callback, server, crashes>>

SaveFails(c) ==
  /\ pc[c] \in {"save", "write"}
  /\ lost' = TRUE
  /\ ExchangeFailed(c)
  /\ UNCHANGED <<now, memory, ctxDone, exchange, callback, server, crashes>>

-----------------------------------------------------------------------------
(* The world around                                                        *)

Cancel(c) ==
  /\ pc[c] # "idle" /\ ~ctxDone[c]
  /\ ctxDone' = [ctxDone EXCEPT ![c] = TRUE]
  /\ UNCHANGED <<now, memory, mu, pc, exchange, callback, got, server, history>>

Tick ==
  /\ now < MaxTime
  /\ now' = now + 1
  /\ UNCHANGED <<memory, mu, pc, ctxDone, exchange, callback, got, server, history>>

(* The process ends and starts again; what has not begun comes later. *)
Restart ==
  /\ crashes < MaxCrashes
  /\ crashes' = crashes + 1
  /\ token' = NoToken /\ mu' = NoCall /\ newest' = 0
  /\ pc' = [c \in Calls |-> IF pc[c] = "idle" THEN "idle" ELSE "done"]
  /\ lost' = (lost \/ \E c \in Calls : pc[c] \in {"reply", "save", "write"})
  /\ UNCHANGED <<now, file, ctxDone, exchange, callback, got, server>>

authorize(c) == CannotListen(c) \/ OpenBrowser(c) \/ CodeArrives(c) \/ GiveUp(c)
saveToken(c) == Truncate(c) \/ Write(c) \/ SaveFails(c)
exchangeToken(c) == ServerIssues(c) \/ AnswerWithoutToken(c) \/ RequestFails(c) \/ Accept(c)
GetToken(c) == Lock(c) \/ ReturnCached(c) \/ refresh(c) \/ NeedsBrowser(c)

Next ==
  \/ \E c \in Calls : \/ Call(c) \/ GetToken(c) \/ authorize(c)
                      \/ exchangeToken(c) \/ saveToken(c) \/ Cancel(c)
  \/ Callback \/ Tick \/ Restart

Spec == Init /\ [][Next]_vars

(* Goroutines run, and a token request whose context is done fails.        *)
(* Nobody has to answer in the browser or at the server.                   *)
FairSpec ==
  /\ Spec
  /\ \A c \in Calls :
       /\ WF_vars(GetToken(c)) /\ WF_vars(authorize(c)) /\ WF_vars(saveToken(c))
       /\ WF_vars(ctxDone[c] /\ RequestFails(c))

-----------------------------------------------------------------------------
(* Properties                                                              *)

(* Between calls, the token file, the memory and the server agree on a     *)
(* refresh token that still works, through rotations, restarts and failed  *)
(* attempts, so that the next expiry needs no browser (oauth.go:40); what  *)
(* loses it is an answer without a refresh token or one that does not      *)
(* arrive, a file that cannot be written, or a restart in between.         *)
RefreshKept ==
  mu = NoCall /\ ~lost =>
    /\ file.refresh \in accepted
    /\ token # NoToken => token = file

(* No caller gets a token older than one that was returned before: calls   *)
(* that find it expired together cannot undo each other's refresh.         *)
NeverOlder ==
  [][\A c \in Calls : got'[c] # got[c] /\ got'[c] > 0 => got'[c] >= newest]_vars

(* One call in front of the browser holds up all others, but not for ever: *)
(* if every caller goes away sooner or later, every call returns.          *)
CallsReturn ==
  (\A c \in Calls : <>ctxDone[c]) => \A c \in Calls : pc[c] = "waiting" ~> pc[c] = "done"
=============================================================================
