----------------------------- MODULE AuthSessions -----------------------------
(***************************************************************************)
(* The session of one user in one browser: rotating refresh tokens          *)
(* (authController.ts, authGoogleController.ts), the access tokens its tabs *)
(* hold, and the axios interceptor (client/src/app/api/client.ts) that      *)
(* answers a 401 with a refresh and one retry. Tabs share the cookie and    *)
(* nothing else; every call that gets a 401 refreshes for itself.           *)
(***************************************************************************)
EXTENDS Naturals

CONSTANTS
    Tabs,
    Calls,      \* calls of the API in progress at a time
    Handlers,   \* what users do besides calling the API
    Faults,     \* the faults that occur
    MaxTokens,  \* refresh tokens ever issued: one at first, one an event
    MaxEvents   \* bound: calls, logouts, sign-ins, expiries and faults

AllHandlers == {"logout", "signIn"}
AllFaults == {"database", "lostReply"}

ASSUME SessionsAssumption ==
    /\ Handlers \subseteq AllHandlers /\ Faults \subseteq AllFaults
    /\ MaxEvents \in Nat /\ MaxTokens \in Nat /\ MaxTokens > MaxEvents
    /\ "none" \notin Tabs

Tokens == 1 .. MaxTokens
Records == {"unused", "active", "expired", "revoked"}
Access == {"none", "fresh", "expired"}

VARIABLES
    record, \* the RefreshToken documents
    cookie, \* the refreshToken cookie of the browser; 0 for none
    access, \* the access token in each tab's store
    call,   \* progress of each call
    lost,   \* history: a reply that would have changed the cookie was lost
    events  \* calls, logouts, sign-ins, expiries and faults so far

vars == <<record, cookie, access, call, lost, events>>

\* presented is the token a refresh or logout carries, sent its record when it
\* was sent (history), next the successor and reply the answer of the server.
Done == [pc |-> "idle", tab |-> "none", bearer |-> "none", retried |-> FALSE,
         presented |-> 0, sent |-> "unused", next |-> 0, reply |-> "none"]
Steps == {"idle", "request", "find", "rotate", "logout", "reply"}

CallRecord == [pc : Steps, tab : Tabs \cup {"none"}, bearer : Access,
               retried : BOOLEAN, presented : 0 .. MaxTokens, sent : Records,
               next : 0 .. MaxTokens, reply : {"none", "refused", "clear", "token"}]

TypeOK ==
    /\ record \in [Tokens -> Records]
    /\ cookie \in 0 .. MaxTokens
    /\ access \in [Tabs -> Access]
    /\ call \in [Calls -> CallRecord]
    /\ \A c \in Calls : call[c].pc # "idle" => call[c].tab \in Tabs
    /\ lost \in BOOLEAN /\ events \in 0 .. MaxEvents

\* Somebody signed in on an earlier visit; the tabs rehydrate what they persisted.
Init ==
    /\ record = [t \in Tokens |-> IF t = 1 THEN "active" ELSE "unused"]
    /\ cookie \in {0, 1} \cap (0 .. MaxTokens)
    /\ access \in [Tabs -> {"none", "expired"}]
    /\ call = [c \in Calls |-> Done]
    /\ lost = FALSE /\ events = 0

Event == events < MaxEvents /\ events' = events + 1
Sets(c, new) == call' = [call EXCEPT ![c] = new]
\* The token that a rotation or sign-in issues: ids are random, so always another.
Fresh == {t \in Tokens : record[t] = "unused" /\ \A s \in 1 .. t - 1 : record[s] # "unused"}
RecordOf(t) == IF t = 0 THEN "unused" ELSE record[t]
-----------------------------------------------------------------------------
(* The client. *)

\* A page calls the API with the token in its store.
Request(c, t) ==
    /\ call[c].pc = "idle" /\ access[t] # "none" /\ Event
    /\ Sets(c, [Done EXCEPT !.pc = "request", !.tab = t, !.bearer = access[t]])
    /\ UNCHANGED <<record, cookie, access, lost>>

\* The user clicks logout: the request carries the cookie.
Logout(c, t) ==
    /\ "logout" \in Handlers /\ call[c].pc = "idle" /\ access[t] # "none" /\ Event
    /\ Sets(c, [Done EXCEPT !.pc = "logout", !.tab = t,
                            !.presented = cookie, !.sent = RecordOf(cookie)])
    /\ UNCHANGED <<record, cookie, access, lost>>

\* Mutant: the catch block does not reject the call.
LeavesPending(c) ==
    /\ access' = [access EXCEPT ![call[c].tab] = "none"]
    /\ UNCHANGED call

\* The interceptor gives up: the store is cleared and the page goes to /login.
GivesUp(c) ==
    /\ access' = [access EXCEPT ![call[c].tab] = "none"]
    /\ Sets(c, Done)

\* requireAuth answers, and the interceptor reacts: a 401 is followed by
\* POST /auth/refresh with the cookie of that moment, once for each call.
\* requireAuth also answers 401 when the database does not.
Answered(c) ==
    /\ call[c].pc = "request"
    /\ \/ /\ call[c].bearer = "fresh"
          /\ Sets(c, Done) /\ UNCHANGED events
       \/ /\ \/ call[c].bearer # "fresh" /\ UNCHANGED events
             \/ call[c].bearer = "fresh" /\ "database" \in Faults /\ Event
          /\ IF call[c].retried THEN Sets(c, Done)
             ELSE Sets(c, [call[c] EXCEPT !.pc = "find", !.retried = TRUE,
                               !.presented = cookie, !.sent = RecordOf(cookie)])
    /\ UNCHANGED <<record, cookie, access, lost>>

\* Mutant: the reply does not set the new cookie.
CookieNotSet(c) == IF call[c].reply = "clear" THEN 0 ELSE cookie

\* What the browser does with the Set-Cookie header of a reply.
CookieAfter(c) ==
    CASE call[c].reply = "token" -> call[c].next
      [] call[c].reply = "clear" -> 0
      [] OTHER -> cookie

\* Mutant: the retry is sent without the configuration of the call.
RetriedBare(c) == [Done EXCEPT !.pc = "request", !.bearer = "fresh", !.retried = TRUE]

\* The call is sent again with the new access token, and not a third time.
Retried(c) ==
    [Done EXCEPT !.pc = "request", !.tab = call[c].tab, !.bearer = "fresh", !.retried = TRUE]

\* The reply to a refresh or a logout arrives.
Receive(c) ==
    /\ call[c].pc = "reply"
    /\ cookie' = CookieAfter(c)
    /\ IF call[c].reply = "token"
       THEN /\ access' = [access EXCEPT ![call[c].tab] = "fresh"]
            /\ Sets(c, Retried(c))
       ELSE GivesUp(c)
    /\ UNCHANGED <<record, lost, events>>

\* The network loses the request or the reply: the catch block runs, the
\* browser sees no header.
Lose(c) ==
    /\ "lostReply" \in Faults /\ call[c].pc \in {"find", "logout", "reply"} /\ Event
    /\ lost' = (lost \/ call[c].pc = "reply")
    /\ GivesUp(c)
    /\ UNCHANGED <<record, cookie>>
-----------------------------------------------------------------------------
(* The server. *)

Replies(c, reply, next) ==
    Sets(c, [call[c] EXCEPT !.pc = "reply", !.reply = reply, !.next = next])

\* Mutant: revokedAt is not asked for.
FindAnyRecord(c) ==
    /\ call[c].pc = "find"
    /\ CASE call[c].presented = 0 -> Replies(c, "refused", 0)
         [] RecordOf(call[c].presented) # "expired" -> Sets(c, [call[c] EXCEPT !.pc = "rotate"])
         [] OTHER -> Replies(c, "clear", 0)
    /\ UNCHANGED <<record, cookie, access, lost, events>>

\* refresh looks for an unrevoked, unexpired record of the cookie's token.
FindRecord(c) ==
    /\ call[c].pc = "find"
    /\ CASE call[c].presented = 0 -> Replies(c, "refused", 0)
         [] RecordOf(call[c].presented) = "active" -> Sets(c, [call[c] EXCEPT !.pc = "rotate"])
         [] OTHER -> Replies(c, "clear", 0)
    /\ UNCHANGED <<record, cookie, access, lost, events>>

\* The found record is saved as revoked, whatever became of it since, and its
\* successor created: two writes at once, either of which may fail.
Rotate(c) ==
    /\ call[c].pc = "rotate"
    /\ \E next \in Fresh :
          \/ /\ record' = [record EXCEPT ![call[c].presented] = "revoked", ![next] = "active"]
             /\ Replies(c, "token", next)
             /\ UNCHANGED events
          \/ /\ "database" \in Faults /\ Event
             /\ record' \in {record, [record EXCEPT ![call[c].presented] = "revoked"],
                             [record EXCEPT ![next] = "active"]}
             /\ Replies(c, "clear", 0)
    /\ UNCHANGED <<cookie, access, lost>>

\* logout revokes the cookie's token unless it is revoked or expired (its JWT
\* expires with its record, and the error is ignored, as one of the database
\* is). The cookie is cleared in any case.
Revoke(c) ==
    /\ call[c].pc = "logout"
    /\ \/ /\ record' = [t \in Tokens |-> IF t = call[c].presented /\ record[t] = "active"
                                         THEN "revoked" ELSE record[t]]
          /\ UNCHANGED events
       \/ "database" \in Faults /\ Event /\ UNCHANGED record
    /\ Replies(c, "clear", 0)
    /\ UNCHANGED <<cookie, access, lost>>

\* googleAuthCallback succeeds: a token is issued, and the tab lands on the
\* success page with an access token.
SignIn(t) ==
    /\ "signIn" \in Handlers /\ access[t] = "none" /\ Event
    /\ \E next \in Fresh :
          /\ record' = [record EXCEPT ![next] = "active"]
          /\ cookie' = next
    /\ access' = [access EXCEPT ![t] = "fresh"]
    /\ UNCHANGED <<call, lost>>

\* Fifteen minutes pass; seven days pass.
ExpireAccess(t) ==
    /\ access[t] = "fresh" /\ Event
    /\ access' = [access EXCEPT ![t] = "expired"]
    /\ UNCHANGED <<record, cookie, call, lost>>

ExpireRefresh(t) ==
    /\ record[t] = "active" /\ Event
    /\ record' = [record EXCEPT ![t] = "expired"]
    /\ UNCHANGED <<cookie, access, call, lost>>
-----------------------------------------------------------------------------
Proceed(c) == Answered(c) \/ Receive(c) \/ FindRecord(c) \/ Rotate(c) \/ Revoke(c)

Next ==
    \/ \E c \in Calls : Proceed(c) \/ Lose(c) \/ \E t \in Tabs : Request(c, t) \/ Logout(c, t)
    \/ \E t \in Tabs : SignIn(t) \/ ExpireAccess(t)
    \/ \E t \in Tokens : ExpireRefresh(t)

Spec == Init /\ [][Next]_vars

\* The server answers, and the browser runs the handler of the answer.
FairSpec == Spec /\ \A c \in Calls : WF_vars(Proceed(c))
-----------------------------------------------------------------------------
(* Properties. *)

\* A browser is left with a revoked token only while the reply that replaces or
\* clears it is on its way: however many tabs refresh at once, in whatever order
\* their replies arrive, and whoever logs out meanwhile, no cookie is stranded,
\* unless a reply was lost.
CookieIsLive ==
    ~lost /\ cookie # 0 /\ record[cookie] = "revoked" =>
        \E c \in Calls : call[c].pc \in {"rotate", "reply"} /\ call[c].presented = cookie

\* A refresh that presents a token already revoked when it is sent gets no
\* successor (docs/status.md:196, old refresh token reuse rejection).
ReuseIsRefused == \A c \in Calls : call[c].sent = "revoked" => call[c].reply # "token"

\* A page never waits for ever: each call ends, after at most one retry, with
\* an answer or on the login page.
EveryCallEnds == \A c \in Calls : call[c].pc # "idle" ~> call[c].pc = "idle"

\* docs/testing/module-e2e-cases.md, Refresh Token Recovery: with a valid refresh
\* cookie a call that gets a 401 refreshes and is retried; the user is not signed
\* out (while nobody logs out, and the token's seven days last).
ValidCookieRecovers ==
    \A c \in Calls :
        /\ call[c].pc = "reply" /\ call[c].sent = "active"
        /\ record[call[c].presented] # "expired"
        => call[c].reply = "token"
=============================================================================
