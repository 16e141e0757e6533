-------------------------- MODULE AuthSessions_proofs --------------------------
(***************************************************************************)
(* Proofs about AuthSessions, for any number of tabs, calls and tokens:     *)
(* type correctness, that a used token is never answered with a successor,  *)
(* and that no cookie is stranded unless a reply is lost.                   *)
(***************************************************************************)
EXTENDS AuthSessions, TLAPS

\* Whatever a call carries, or the browser holds, was issued.
Held(t) == t # 0 => record[t] # "unused"
AllHeldIssued ==
    /\ Held(cookie)
    /\ \A c \in Calls : Held(call[c].presented) /\ Held(call[c].next)

\* A successor on its way to the browser is known to nobody else: it is not in
\* the cookie, no call presents it, and no other reply carries it.
Brings(c) == call[c].pc = "reply" /\ call[c].reply = "token"
SuccessorIsUnknown ==
    \A c \in Calls : Brings(c) =>
        /\ call[c].next # 0 /\ call[c].next # cookie
        /\ record[call[c].next] # "revoked"
        /\ \A d \in Calls : call[d].presented # call[c].next
        /\ \A d \in Calls : d # c => call[d].next # call[c].next

\* Only replies to refreshes bring a token, and a refusal leaves the cookie
\* alone only when there was none.
RepliesFit ==
    \A c \in Calls :
        /\ call[c].pc # "reply" => call[c].reply = "none" /\ call[c].next = 0
        /\ call[c].pc = "reply" => call[c].reply # "none"
        /\ call[c].reply = "refused" => call[c].presented = 0
        /\ call[c].pc = "rotate" => call[c].presented # 0

\* A token that was revoked when it was presented is revoked still, and its
\* refresh has not been let through.
ReusedStaysRevoked ==
    \A c \in Calls : call[c].sent = "revoked" =>
        /\ call[c].presented # 0 /\ record[call[c].presented] = "revoked"
        /\ call[c].pc \in {"find", "logout", "reply"}
        /\ call[c].reply # "token"

SessionInv ==
    /\ TypeOK /\ AllHeldIssued /\ SuccessorIsUnknown /\ RepliesFit
    /\ ReusedStaysRevoked /\ CookieIsLive
-----------------------------------------------------------------------------
(* Lemmas about the operators. *)

\* Setting one call leaves the others.
LEMMA SetsOne ==
    ASSUME call \in [Calls -> CallRecord], NEW c \in Calls, NEW new \in CallRecord, Sets(c, new)
    PROVE  /\ call' \in [Calls -> CallRecord]
           /\ call'[c] = new
           /\ \A d \in Calls : d # c => call'[d] = call[d]
BY DEF Sets

\* The fields a step of a call may change, as those of a record.
LEMMA DoneIsRecord == Done \in CallRecord
BY SessionsAssumption DEF Done, CallRecord, Steps, Access, Records, SessionsAssumption

\* A token that is fresh is an unused token.
LEMMA FreshIsUnused == \A t \in Fresh : t \in Tokens /\ t # 0 /\ record[t] = "unused"
BY DEF Fresh, Tokens
-----------------------------------------------------------------------------
(* Every action keeps SessionInv. *)

LEMMA EventCounts ==
    ASSUME events \in 0 .. MaxEvents, Event \/ UNCHANGED events
    PROVE  events' \in 0 .. MaxEvents
BY SessionsAssumption DEF Event, SessionsAssumption

\* A step that leaves the tokens and the cookie alone, ends no refresh, and at
\* most gives its call the token of the cookie to present.
LEMMA QuietStepKeeps ==
    ASSUME SessionInv, NEW c \in Calls, NEW new \in CallRecord, Sets(c, new),
           UNCHANGED <<record, cookie, lost>>, access' \in [Tabs -> Access],
           Event \/ UNCHANGED events, call[c].pc \notin {"rotate", "reply"},
           new.pc \notin {"rotate", "reply"}, new.next = 0, new.reply = "none",
           new.pc # "idle" => new.tab \in Tabs,
           \/ new.presented = 0 /\ new.sent = "unused"
           \/ /\ new.presented = cookie /\ new.sent = RecordOf(cookie)
              /\ new.pc \in {"find", "logout"}
    PROVE  SessionInv'
<1>1. TypeOK
  BY DEF SessionInv
<1>2. /\ call' \in [Calls -> CallRecord] /\ call'[c] = new
      /\ \A d \in Calls : d # c => call'[d] = call[d]
  BY <1>1, SetsOne DEF TypeOK
<1>3. TypeOK'
  BY <1>1, <1>2, EventCounts DEF TypeOK
<1>4. AllHeldIssued'
  BY <1>2 DEF SessionInv, AllHeldIssued, Held
<1>5. SuccessorIsUnknown'
  BY <1>2 DEF SessionInv, SuccessorIsUnknown, Brings
<1>6. RepliesFit'
  BY <1>2 DEF SessionInv, RepliesFit
<1>7. ReusedStaysRevoked'
  BY <1>2 DEF SessionInv, ReusedStaysRevoked, RecordOf
<1>8. CookieIsLive'
  BY <1>2 DEF SessionInv, CookieIsLive
<1> QED
  BY <1>3, <1>4, <1>5, <1>6, <1>7, <1>8 DEF SessionInv

LEMMA RequestKeeps ==
    ASSUME SessionInv, NEW c \in Calls, NEW t \in Tabs, Request(c, t)
    PROVE  SessionInv'
<1> DEFINE new == [Done EXCEPT !.pc = "request", !.tab = t, !.bearer = access[t]]
<1>1. TypeOK
  BY DEF SessionInv
<1>2. new \in CallRecord
  BY <1>1, DoneIsRecord DEF Done, CallRecord, Steps, Access, Records, TypeOK
<1>3. /\ new.pc = "request" /\ new.tab = t /\ new.presented = 0 /\ new.sent = "unused"
      /\ new.next = 0 /\ new.reply = "none"
  BY DEF Done
<1>4. Sets(c, new)
  BY DEF Request
<1> HIDE DEF new
<1> QED
  BY <1>1, <1>2, <1>3, <1>4, QuietStepKeeps DEF Request, TypeOK

LEMMA RecordOfIsRecord == ASSUME TypeOK, NEW t \in 0 .. MaxTokens
                          PROVE  RecordOf(t) \in Records
BY DEF TypeOK, RecordOf, Records, Tokens

LEMMA LogoutKeeps ==
    ASSUME SessionInv, NEW c \in Calls, NEW t \in Tabs, Logout(c, t)
    PROVE  SessionInv'
<1> DEFINE new == [Done EXCEPT !.pc = "logout", !.tab = t,
                               !.presented = cookie, !.sent = RecordOf(cookie)]
<1>1. TypeOK /\ cookie \in 0 .. MaxTokens
  BY DEF SessionInv, TypeOK
<1>2. RecordOf(cookie) \in Records
  BY <1>1, RecordOfIsRecord
<1>3. new \in CallRecord
  BY <1>1, <1>2, DoneIsRecord DEF Done, CallRecord, Steps
<1>4. /\ new.pc = "logout" /\ new.tab = t /\ new.presented = cookie
      /\ new.sent = RecordOf(cookie) /\ new.next = 0 /\ new.reply = "none"
  BY DEF Done
<1>5. Sets(c, new)
  BY DEF Logout
<1> HIDE DEF new
<1> QED
  BY <1>1, <1>3, <1>4, <1>5, QuietStepKeeps DEF Logout, TypeOK

LEMMA AnsweredKeeps ==
    ASSUME SessionInv, NEW c \in Calls, Answered(c)
    PROVE  SessionInv'
<1> DEFINE new == [call[c] EXCEPT !.pc = "find", !.retried = TRUE,
                                  !.presented = cookie, !.sent = RecordOf(cookie)]
<1>1. TypeOK /\ cookie \in 0 .. MaxTokens /\ call[c] \in CallRecord /\ access \in [Tabs -> Access]
  BY DEF SessionInv, TypeOK
<1>2. /\ UNCHANGED <<record, cookie, lost>> /\ access' \in [Tabs -> Access]
      /\ Event \/ UNCHANGED events
      /\ call[c].pc = "request" /\ call[c].tab \in Tabs
  BY <1>1 DEF Answered, TypeOK
<1>3. CASE Sets(c, Done)
  <2>1. /\ Done.pc = "idle" /\ Done.presented = 0 /\ Done.sent = "unused"
        /\ Done.next = 0 /\ Done.reply = "none"
    BY DEF Done
  <2> QED
    BY <1>2, <1>3, <2>1, DoneIsRecord, QuietStepKeeps
<1>4. CASE Sets(c, new)
  <2>1. RecordOf(cookie) \in Records
    BY <1>1, RecordOfIsRecord
  <2>2. call[c].next = 0 /\ call[c].reply = "none"
    BY <1>2 DEF SessionInv, RepliesFit
  <2>3. new \in CallRecord
    BY <1>1, <2>1 DEF CallRecord, Steps
  <2>4. /\ new.pc = "find" /\ new.tab = call[c].tab /\ new.presented = cookie
        /\ new.sent = RecordOf(cookie) /\ new.next = 0 /\ new.reply = "none"
    BY <1>1, <2>2 DEF CallRecord
  <2> HIDE DEF new
  <2> QED
    BY <1>2, <1>4, <2>3, <2>4, QuietStepKeeps
<1> QED
  BY <1>3, <1>4 DEF Answered

\* A reply without a successor, whatever became of the presented token.
LEMMA RefusingKeeps ==
    ASSUME SessionInv, NEW c \in Calls, NEW reply \in {"refused", "clear"},
           Replies(c, reply, 0), reply = "refused" => call[c].presented = 0,
           call[c].pc \in {"find", "rotate", "logout"},
           UNCHANGED <<cookie, access, lost>>, Event \/ UNCHANGED events,
           record' \in [Tokens -> Records],
           \A t \in Tokens : \/ record'[t] = record[t]
                             \/ record'[t] = "revoked" /\ t = call[c].presented
                             \/ record'[t] = "active" /\ record[t] = "unused"
    PROVE  SessionInv'
<1> DEFINE new == [call[c] EXCEPT !.pc = "reply", !.reply = reply, !.next = 0]
<1>1. TypeOK /\ call[c] \in CallRecord /\ cookie \in 0 .. MaxTokens
  BY DEF SessionInv, TypeOK
<1>2. Sets(c, new)
  BY DEF Replies
<1>3. 0 \in 0 .. MaxTokens /\ reply \in {"refused", "clear", "token"}
  BY SessionsAssumption DEF SessionsAssumption
<1>4. /\ new.pc = "reply" /\ new.reply = reply /\ new.next = 0 /\ new.tab = call[c].tab
      /\ new.presented = call[c].presented /\ new.sent = call[c].sent
  BY <1>1 DEF CallRecord
<1>5. new \in CallRecord
  BY <1>1, <1>3 DEF CallRecord, Steps
<1> HIDE DEF new
<1>6. /\ call' \in [Calls -> CallRecord] /\ call'[c] = new
      /\ \A d \in Calls : d # c => call'[d] = call[d]
  BY <1>1, <1>2, <1>5, SetsOne DEF TypeOK
<1>7. \A d \in Calls : call[d].presented \in 0 .. MaxTokens /\ call[d].next \in 0 .. MaxTokens
  BY <1>1 DEF TypeOK, CallRecord
<1>8. \A t \in 0 .. MaxTokens : t # 0 => t \in Tokens
  BY DEF Tokens
<1>9. TypeOK'
  BY <1>1, <1>4, <1>6, EventCounts DEF TypeOK
<1>10. AllHeldIssued'
  BY <1>1, <1>4, <1>6, <1>7, <1>8 DEF SessionInv, AllHeldIssued, Held
<1>11. SuccessorIsUnknown'
  BY <1>4, <1>6, <1>7, <1>8 DEF SessionInv, SuccessorIsUnknown, Brings
<1>12. RepliesFit'
  BY <1>4, <1>6 DEF SessionInv, RepliesFit
<1>13. ReusedStaysRevoked'
  BY <1>4, <1>6, <1>7, <1>8 DEF SessionInv, ReusedStaysRevoked
<1>14. CookieIsLive'
  BY <1>1, <1>4, <1>6, <1>8 DEF SessionInv, CookieIsLive
<1> QED
  BY <1>9, <1>10, <1>11, <1>12, <1>13, <1>14 DEF SessionInv

LEMMA FindRecordKeeps ==
    ASSUME SessionInv, NEW c \in Calls, FindRecord(c)
    PROVE  SessionInv'
<1>1. /\ TypeOK /\ call[c] \in CallRecord /\ call[c].pc = "find"
      /\ UNCHANGED <<record, cookie, access, lost, events>> /\ record' \in [Tokens -> Records]
  BY DEF FindRecord, SessionInv, TypeOK
<1>2. CASE call[c].presented = 0 /\ Replies(c, "refused", 0)
  BY <1>1, <1>2, RefusingKeeps
<1>3. CASE Replies(c, "clear", 0)
  BY <1>1, <1>3, RefusingKeeps
<1>4. CASE /\ call[c].presented # 0 /\ RecordOf(call[c].presented) = "active"
           /\ Sets(c, [call[c] EXCEPT !.pc = "rotate"])
  <2> DEFINE new == [call[c] EXCEPT !.pc = "rotate"]
  <2>1. /\ new \in CallRecord /\ new.pc = "rotate" /\ new.tab = call[c].tab
        /\ new.presented = call[c].presented /\ new.sent = call[c].sent
        /\ new.next = call[c].next /\ new.reply = call[c].reply
    BY <1>1 DEF CallRecord, Steps
  <2>2. /\ call' \in [Calls -> CallRecord] /\ call'[c] = new
        /\ \A d \in Calls : d # c => call'[d] = call[d]
    BY <1>1, <1>4, <2>1, SetsOne DEF TypeOK
  <2> HIDE DEF new
  <2>3. new.next = 0 /\ new.reply = "none" /\ new.sent # "revoked"
    BY <1>1, <1>4, <2>1 DEF SessionInv, RepliesFit, ReusedStaysRevoked, RecordOf
  <2>4. TypeOK'
    BY <1>1, <2>1, <2>2 DEF TypeOK
  <2>5. AllHeldIssued'
    BY <1>1, <2>1, <2>2 DEF SessionInv, AllHeldIssued, Held
  <2>6. SuccessorIsUnknown'
    BY <1>1, <2>1, <2>2, <2>3 DEF SessionInv, SuccessorIsUnknown, Brings
  <2>7. RepliesFit'
    BY <1>1, <1>4, <2>1, <2>2, <2>3 DEF SessionInv, RepliesFit
  <2>8. ReusedStaysRevoked'
    BY <1>1, <2>1, <2>2, <2>3 DEF SessionInv, ReusedStaysRevoked
  <2>9. CookieIsLive'
    BY <1>1, <2>1, <2>2 DEF SessionInv, CookieIsLive
  <2> QED
    BY <2>4, <2>5, <2>6, <2>7, <2>8, <2>9 DEF SessionInv
<1> QED
  BY <1>2, <1>3, <1>4 DEF FindRecord, RecordOf

LEMMA RevokeKeeps ==
    ASSUME SessionInv, NEW c \in Calls, Revoke(c)
    PROVE  SessionInv'
<1>1. /\ call[c].pc = "logout" /\ Replies(c, "clear", 0)
      /\ UNCHANGED <<cookie, access, lost>> /\ (Event \/ UNCHANGED events)
  BY DEF Revoke
<1>2. record \in [Tokens -> Records]
  BY DEF SessionInv, TypeOK
<1>3. record' \in [Tokens -> Records]
  BY <1>2 DEF Revoke, Records
<1>4. \A t \in Tokens : \/ record'[t] = record[t]
                        \/ record'[t] = "revoked" /\ t = call[c].presented
  BY <1>2 DEF Revoke
<1> QED
  BY <1>1, <1>3, <1>4, RefusingKeeps

LEMMA RotateKeeps ==
    ASSUME SessionInv, NEW c \in Calls, Rotate(c)
    PROVE  SessionInv'
<1>1. /\ TypeOK /\ call[c] \in CallRecord /\ record \in [Tokens -> Records]
      /\ cookie \in 0 .. MaxTokens
      /\ \A d \in Calls : call[d].presented \in 0 .. MaxTokens /\ call[d].next \in 0 .. MaxTokens
  BY DEF SessionInv, TypeOK, CallRecord
<1>2. /\ call[c].pc = "rotate" /\ UNCHANGED <<cookie, access, lost>>
  BY DEF Rotate
<1>3. PICK next \in Fresh :
          \/ /\ record' = [record EXCEPT ![call[c].presented] = "revoked", ![next] = "active"]
             /\ Replies(c, "token", next)
             /\ UNCHANGED events
          \/ /\ Event
             /\ record' \in {record, [record EXCEPT ![call[c].presented] = "revoked"],
                             [record EXCEPT ![next] = "active"]}
             /\ Replies(c, "clear", 0)
  BY DEF Rotate
<1>4. next \in Tokens /\ next # 0 /\ record[next] = "unused"
  BY FreshIsUnused
<1>5. call[c].presented # 0 /\ call[c].presented \in Tokens /\ record[call[c].presented] # "unused"
  BY <1>1, <1>2 DEF SessionInv, RepliesFit, AllHeldIssued, Held, Tokens
<1>6. CASE /\ record' = [record EXCEPT ![call[c].presented] = "revoked", ![next] = "active"]
           /\ Replies(c, "token", next) /\ UNCHANGED events
  <2> DEFINE new == [call[c] EXCEPT !.pc = "reply", !.reply = "token", !.next = next]
  <2>1. next \in 0 .. MaxTokens
    BY <1>4 DEF Tokens
  <2>2. new \in CallRecord
    BY <1>1, <2>1 DEF CallRecord, Steps
  <2>3. /\ new \in CallRecord /\ new.pc = "reply" /\ new.reply = "token" /\ new.next = next
        /\ new.tab = call[c].tab /\ new.presented = call[c].presented /\ new.sent = call[c].sent
    BY <1>1, <2>2 DEF CallRecord
  <2>4. Sets(c, new)
    BY <1>6 DEF Replies
  <2> HIDE DEF new
  <2>5. /\ call' \in [Calls -> CallRecord] /\ call'[c] = new
        /\ \A d \in Calls : d # c => call'[d] = call[d]
    BY <1>1, <2>3, <2>4, SetsOne DEF TypeOK
  <2>6. /\ record' \in [Tokens -> Records]
        /\ record'[call[c].presented] = "revoked" /\ record'[next] = "active"
        /\ \A t \in Tokens : t # next /\ t # call[c].presented => record'[t] = record[t]
    BY <1>1, <1>4, <1>5, <1>6 DEF Records
  <2>7. /\ cookie # next
        /\ \A d \in Calls : call[d].presented # next /\ call[d].next # next
    BY <1>4 DEF SessionInv, AllHeldIssued, Held
  <2>8. \A t \in 0 .. MaxTokens : t # 0 => t \in Tokens
    BY DEF Tokens
  <2>9. TypeOK'
    BY <1>1, <1>2, <1>6, <2>3, <2>5, <2>6 DEF TypeOK
  <2>10. AllHeldIssued'
    BY <1>1, <1>2, <1>4, <1>5, <2>3, <2>5, <2>6, <2>7, <2>8 DEF SessionInv, AllHeldIssued, Held
  <2>11. SuccessorIsUnknown'
    BY <1>1, <1>2, <1>4, <2>3, <2>5, <2>6, <2>7, <2>8 DEF SessionInv, SuccessorIsUnknown, Brings
  <2>12. RepliesFit'
    BY <2>3, <2>5 DEF SessionInv, RepliesFit
  <2>13. ReusedStaysRevoked'
    BY <1>1, <1>2, <2>3, <2>5, <2>6, <2>7, <2>8 DEF SessionInv, ReusedStaysRevoked
  <2>14. CookieIsLive'
    BY <1>1, <1>2, <2>3, <2>5, <2>6, <2>7, <2>8 DEF SessionInv, CookieIsLive
  <2> QED
    BY <2>9, <2>10, <2>11, <2>12, <2>13, <2>14 DEF SessionInv
<1>7. CASE /\ Event
           /\ record' \in {record, [record EXCEPT ![call[c].presented] = "revoked"],
                           [record EXCEPT ![next] = "active"]}
           /\ Replies(c, "clear", 0)
  <2>1. record' \in [Tokens -> Records]
    BY <1>1, <1>7 DEF Records
  <2>2. \A t \in Tokens : \/ record'[t] = record[t]
                          \/ record'[t] = "revoked" /\ t = call[c].presented
                          \/ record'[t] = "active" /\ record[t] = "unused"
    BY <1>1, <1>4, <1>7
  <2> QED
    BY <1>2, <1>7, <2>1, <2>2, RefusingKeeps
<1> QED
  BY <1>3, <1>6, <1>7

\* A step that ends a refresh or a logout: its call is idle or retried.
LEMMA EndingKeeps ==
    ASSUME SessionInv, NEW c \in Calls, NEW new \in CallRecord, Sets(c, new),
           UNCHANGED record, access' \in [Tabs -> Access], lost' \in BOOLEAN, lost => lost',
           Event \/ UNCHANGED events, call[c].pc # "rotate",
           new.pc \in {"idle", "request"}, new.next = 0, new.reply = "none",
           new.presented = 0, new.sent = "unused", new.pc # "idle" => new.tab \in Tabs,
           \/ UNCHANGED cookie /\ (call[c].pc = "reply" => lost' \/ call[c].presented = 0)
           \/ cookie' = 0
           \/ cookie' = call[c].next /\ Brings(c)
    PROVE  SessionInv'
<1>1. /\ TypeOK /\ cookie \in 0 .. MaxTokens
      /\ \A d \in Calls : call[d].next \in 0 .. MaxTokens /\ call[d].presented \in 0 .. MaxTokens
  BY DEF SessionInv, TypeOK, CallRecord
<1>2. /\ call' \in [Calls -> CallRecord] /\ call'[c] = new
      /\ \A d \in Calls : d # c => call'[d] = call[d]
  BY <1>1, SetsOne DEF TypeOK
<1>3. cookie' \in 0 .. MaxTokens
  BY <1>1, SessionsAssumption DEF SessionsAssumption
<1>4. TypeOK'
  BY <1>1, <1>2, <1>3, EventCounts DEF TypeOK
<1>5. AllHeldIssued'
  BY <1>2 DEF SessionInv, AllHeldIssued, Held
<1>6. SuccessorIsUnknown'
  <2>1. \A d \in Calls : d # c /\ Brings(d) => call[d].next # cookie' /\ call[d].next # 0
    BY DEF SessionInv, SuccessorIsUnknown, Brings
  <2> QED
    BY <1>2, <2>1 DEF SessionInv, SuccessorIsUnknown, Brings
<1>7. RepliesFit'
  BY <1>2 DEF SessionInv, RepliesFit
<1>8. ReusedStaysRevoked'
  BY <1>2 DEF SessionInv, ReusedStaysRevoked
<1>9. CookieIsLive'
  <2>1. CASE cookie' = 0
    BY <2>1 DEF CookieIsLive
  <2>2. CASE cookie' = call[c].next /\ Brings(c)
    BY <2>2 DEF SessionInv, SuccessorIsUnknown, CookieIsLive
  <2>3. CASE UNCHANGED cookie /\ (call[c].pc = "reply" => lost' \/ call[c].presented = 0)
    BY <1>2, <2>3 DEF SessionInv, CookieIsLive
  <2> QED
    BY <2>1, <2>2, <2>3
<1> QED
  BY <1>4, <1>5, <1>6, <1>7, <1>8, <1>9 DEF SessionInv

LEMMA DoneFields ==
    Done.pc = "idle" /\ Done.presented = 0 /\ Done.sent = "unused" /\ Done.next = 0 /\ Done.reply = "none"
BY DEF Done

LEMMA ReceiveKeeps ==
    ASSUME SessionInv, NEW c \in Calls, Receive(c)
    PROVE  SessionInv'
<1>1. /\ TypeOK /\ call[c] \in CallRecord /\ call[c].tab \in Tabs /\ access \in [Tabs -> Access]
      /\ call[c].pc = "reply" /\ cookie' = CookieAfter(c) /\ UNCHANGED <<record, lost, events>>
      /\ lost \in BOOLEAN
  BY DEF Receive, SessionInv, TypeOK
<1>2. call[c].reply \in {"refused", "clear", "token"} /\ (call[c].reply = "refused" => call[c].presented = 0)
  BY <1>1 DEF SessionInv, RepliesFit, CallRecord
<1>3. \/ UNCHANGED cookie /\ (call[c].pc = "reply" => lost' \/ call[c].presented = 0)
      \/ cookie' = 0
      \/ cookie' = call[c].next /\ Brings(c)
  BY <1>1, <1>2 DEF CookieAfter, Brings
<1>4. CASE Sets(c, Retried(c)) /\ access' = [access EXCEPT ![call[c].tab] = "fresh"]
  <2>1. Retried(c) \in CallRecord
    BY <1>1, DoneIsRecord DEF Retried, Done, CallRecord, Steps, Access, Records
  <2>2. /\ Retried(c).pc = "request" /\ Retried(c).tab = call[c].tab /\ Retried(c).presented = 0
        /\ Retried(c).sent = "unused" /\ Retried(c).next = 0 /\ Retried(c).reply = "none"
    BY DEF Retried, Done
  <2>3. access' \in [Tabs -> Access]
    BY <1>1, <1>4 DEF Access
  <2> QED
    BY <1>1, <1>3, <1>4, <2>1, <2>2, <2>3, EndingKeeps
<1>5. CASE GivesUp(c)
  <2>1. access' \in [Tabs -> Access] /\ Sets(c, Done)
    BY <1>1, <1>5 DEF GivesUp, Access
  <2> QED
    BY <1>1, <1>3, <2>1, DoneFields, DoneIsRecord, EndingKeeps
<1> QED
  BY <1>4, <1>5 DEF Receive

LEMMA LoseKeeps ==
    ASSUME SessionInv, NEW c \in Calls, Lose(c)
    PROVE  SessionInv'
<1>1. /\ TypeOK /\ access \in [Tabs -> Access] /\ call[c].pc \in {"find", "logout", "reply"} /\ Event
      /\ lost \in BOOLEAN /\ lost' = (lost \/ call[c].pc = "reply") /\ UNCHANGED <<record, cookie>>
  BY DEF Lose, SessionInv, TypeOK
<1>2. access' \in [Tabs -> Access] /\ Sets(c, Done)
  BY <1>1 DEF Lose, GivesUp, Access
<1>3. lost' \in BOOLEAN /\ (lost => lost') /\ (call[c].pc = "reply" => lost')
  BY <1>1
<1> QED
  BY <1>1, <1>2, <1>3, DoneFields, DoneIsRecord, EndingKeeps

\* Sign-in and expiry: no call moves, tokens become active or expire, and the
\* cookie, if it changes, is an active token nobody has seen.
LEMMA TokensKeep ==
    ASSUME SessionInv, UNCHANGED <<call, lost>>, access' \in [Tabs -> Access],
           record' \in [Tokens -> Records], Event \/ UNCHANGED events,
           \A t \in Tokens : record'[t] = "unused" => record[t] = "unused",
           \A t \in Tokens : record'[t] = "revoked" <=> record[t] = "revoked",
           \/ UNCHANGED cookie
           \/ cookie' \in Tokens /\ record[cookie'] = "unused" /\ record'[cookie'] = "active"
    PROVE  SessionInv'
<1>1. /\ TypeOK /\ cookie \in 0 .. MaxTokens
      /\ \A d \in Calls : call[d].next \in 0 .. MaxTokens /\ call[d].presented \in 0 .. MaxTokens
  BY DEF SessionInv, TypeOK, CallRecord
<1>2. (\A t \in 0 .. MaxTokens : t # 0 => t \in Tokens) /\ (\A t \in Tokens : t \in 0 .. MaxTokens /\ t # 0)
  BY DEF Tokens
<1>3. TypeOK'
  BY <1>1, <1>2, EventCounts DEF TypeOK
<1>4. AllHeldIssued'
  BY <1>1, <1>2 DEF SessionInv, AllHeldIssued, Held
<1>5. SuccessorIsUnknown'
  BY <1>1, <1>2 DEF SessionInv, SuccessorIsUnknown, Brings, AllHeldIssued, Held
<1>6. RepliesFit' /\ ReusedStaysRevoked'
  BY <1>1, <1>2 DEF SessionInv, RepliesFit, ReusedStaysRevoked
<1>7. CookieIsLive'
  BY <1>1, <1>2 DEF SessionInv, CookieIsLive
<1> QED
  BY <1>3, <1>4, <1>5, <1>6, <1>7 DEF SessionInv

LEMMA SignInKeeps ==
    ASSUME SessionInv, NEW t \in Tabs, SignIn(t)
    PROVE  SessionInv'
<1>1. record \in [Tokens -> Records] /\ access \in [Tabs -> Access]
  BY DEF SessionInv, TypeOK
<1>2. PICK next \in Fresh : record' = [record EXCEPT ![next] = "active"] /\ cookie' = next
  BY DEF SignIn
<1>3. next \in Tokens /\ record[next] = "unused"
  BY FreshIsUnused
<1>4. record' \in [Tokens -> Records] /\ access' \in [Tabs -> Access]
  BY <1>1, <1>2 DEF SignIn, Records, Access
<1> QED
  BY <1>1, <1>2, <1>3, <1>4, TokensKeep DEF SignIn

LEMMA ExpireKeeps ==
    ASSUME SessionInv, (\E t \in Tabs : ExpireAccess(t)) \/ (\E t \in Tokens : ExpireRefresh(t))
    PROVE  SessionInv'
<1>1. record \in [Tokens -> Records] /\ access \in [Tabs -> Access]
  BY DEF SessionInv, TypeOK
<1>2. CASE \E t \in Tabs : ExpireAccess(t)
  <2>1. access' \in [Tabs -> Access] /\ UNCHANGED <<record, cookie, call, lost>> /\ Event
    BY <1>1, <1>2 DEF ExpireAccess, Access
  <2> QED
    BY <1>1, <2>1, TokensKeep
<1>3. CASE \E t \in Tokens : ExpireRefresh(t)
  <2>1. PICK t \in Tokens : ExpireRefresh(t)
    BY <1>3
  <2>2. record[t] = "active" /\ record' = [record EXCEPT ![t] = "expired"]
    BY <2>1 DEF ExpireRefresh
  <2>3. record' \in [Tokens -> Records]
    BY <1>1, <2>2 DEF Records
  <2>4. \A s \in Tokens : record'[s] = record[s] \/ (record[s] = "active" /\ record'[s] = "expired")
    BY <1>1, <2>2
  <2>5. UNCHANGED <<cookie, access, call, lost>> /\ Event
    BY <2>1 DEF ExpireRefresh
  <2> QED
    BY <1>1, <2>3, <2>4, <2>5, TokensKeep
<1> QED
  BY <1>2, <1>3
-----------------------------------------------------------------------------
(* The theorems. *)

LEMMA SessionInvInit == Init => SessionInv
<1> SUFFICES ASSUME Init PROVE SessionInv
  OBVIOUS
<1>1. \A c \in Calls : call[c] = Done
  BY DEF Init
<1>2. MaxTokens \in Nat /\ MaxTokens > 0 /\ MaxEvents \in Nat
  BY SessionsAssumption DEF SessionsAssumption
<1>3. cookie \in {0, 1} /\ (cookie = 1 => record[cookie] = "active")
  BY <1>2 DEF Init, Tokens
<1>4. TypeOK
  <2>1. record \in [Tokens -> Records] /\ access \in [Tabs -> Access]
    <3>1. \A t \in Tokens : (IF t = 1 THEN "active" ELSE "unused") \in Records
      BY DEF Records
    <3> QED
      BY <3>1 DEF Init, Access
  <2>2. cookie \in 0 .. MaxTokens
    BY DEF Init
  <2>3. lost \in BOOLEAN
    BY Zenon DEF Init
  <2>4. events \in 0 .. MaxEvents
    BY <1>2 DEF Init
  <2>5. call \in [Calls -> CallRecord]
    BY DoneIsRecord DEF Init
  <2> QED
    BY <1>1, <2>1, <2>2, <2>3, <2>5, <2>4, DoneFields DEF TypeOK
<1>5. AllHeldIssued /\ SuccessorIsUnknown /\ RepliesFit /\ ReusedStaysRevoked /\ CookieIsLive
  BY <1>1, <1>3, DoneFields
     DEF AllHeldIssued, Held, SuccessorIsUnknown, Brings, RepliesFit, ReusedStaysRevoked, CookieIsLive
<1> QED
  BY <1>4, <1>5 DEF SessionInv

LEMMA SessionInvStep == SessionInv /\ [Next]_vars => SessionInv'
<1> SUFFICES ASSUME SessionInv, [Next]_vars PROVE SessionInv'
  OBVIOUS
<1>1. CASE UNCHANGED vars
  BY <1>1 DEF vars, SessionInv, TypeOK, AllHeldIssued, Held, SuccessorIsUnknown, Brings,
              RepliesFit, ReusedStaysRevoked, CookieIsLive
<1>2. ASSUME NEW c \in Calls, Proceed(c) PROVE SessionInv'
  BY <1>2, AnsweredKeeps, ReceiveKeeps, FindRecordKeeps, RotateKeeps, RevokeKeeps DEF Proceed
<1>3. ASSUME NEW c \in Calls, Lose(c) PROVE SessionInv'
  BY <1>3, LoseKeeps
<1>4. ASSUME NEW c \in Calls, NEW t \in Tabs, Request(c, t) PROVE SessionInv'
  BY <1>4, RequestKeeps
<1>5. ASSUME NEW c \in Calls, NEW t \in Tabs, Logout(c, t) PROVE SessionInv'
  BY <1>5, LogoutKeeps
<1>6. ASSUME NEW t \in Tabs, SignIn(t) PROVE SessionInv'
  BY <1>6, SignInKeeps
<1>7. ASSUME (\E t \in Tabs : ExpireAccess(t)) \/ (\E t \in Tokens : ExpireRefresh(t)) PROVE SessionInv'
  BY <1>7, ExpireKeeps
<1> QED
  BY <1>1, <1>2, <1>3, <1>4, <1>5, <1>6, <1>7 DEF Next

LEMMA SessionInvHolds == Spec => []SessionInv
BY SessionInvInit, SessionInvStep, PTL DEF Spec

\* Every variable keeps its type: the progress of every call, whatever tabs
\* there are and whatever fails (authController.ts, client.ts).
THEOREM SessionsTypes == Spec => []TypeOK
<1>1. SessionInv => TypeOK
  BY DEF SessionInv
<1> QED
  BY <1>1, SessionInvHolds, PTL

\* The browser is never left with a revoked token unless a reply was lost: for
\* any number of tabs and of calls that refresh, log out and sign in at once.
THEOREM SessionsCookieIsLive == Spec => []CookieIsLive
<1>1. SessionInv => CookieIsLive
  BY DEF SessionInv
<1> QED
  BY <1>1, SessionInvHolds, PTL

\* A token that was used is never exchanged for a successor again, whatever
\* else the session does meanwhile (authController.ts refresh).
THEOREM SessionsReuseIsRefused == Spec => []ReuseIsRefused
<1>1. SessionInv => ReuseIsRefused
  BY DEF SessionInv, ReusedStaysRevoked, ReuseIsRefused
<1> QED
  BY <1>1, SessionInvHolds, PTL
=============================================================================
