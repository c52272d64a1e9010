---------------------- MODULE ScrobbleDelivery_proofs ----------------------
(***************************************************************************)
(* Proofs about ScrobbleDelivery, for any destinations, listens, tokens,   *)
(* batch sizes and bounds.                                                 *)
(*                                                                         *)
(* Every promise rests on what a submission in flight knows of the rows it *)
(* was built from, and on what queued calls will still do to a scrobbler.  *)
(***************************************************************************)
EXTENDS ScrobbleDelivery, FiniteSetTheorems, TLAPS

\* Only a disabled scrobbler without a submission has used up its failures.
FailuresInv ==
    \A d \in Destinations : scrobbler[d].failures = MaxConsecutive =>
        request[d] = NoRequest /\ ~scrobbler[d].config.enabled

\* The last call that configures d's scrobbler carries the saved settings; without
\* one the scrobbler has them, or a signal that will change them is queued.
Configures(m) == m.call = "configure"
LastConfigures(q, c) ==
    \E k \in 1 .. Len(q) : /\ q[k] = Configuring(c)
                           /\ \A l \in k + 1 .. Len(q) : ~Configures(q[l])
NoneConfigures(q) == \A l \in 1 .. Len(q) : ~Configures(q[l])
ConfigInv ==
    \A d \in Destinations :
        \/ LastConfigures(mail[d], Saved(d))
        \/ NoneConfigures(mail[d]) /\ (scrobbler[d].config = Saved(d) \/ notices[d] > 0)

\* A service that answered "ok" took every listen of the submission.
AnswerInv ==
    \A d \in Destinations, i \in Listens :
        request[d].answer = "ok" /\ i \in request[d].ids => accepted[d][i] > 0

\* While the user queues nothing himself: a listen is in flight, or owed, only if no
\* answer the scrobbler could hear has said it was taken.
OnceInv ==
    \A d \in Destinations, i \in Listens :
        /\ i > recorded => delivery[d][i] = "none"
        /\ i \in request[d].ids => delivery[d][i] # "none"
        /\ accepted[d][i] > 0 /\ i \notin unanswered[d] =>
              delivery[d][i] = "sent" \/ (i \in request[d].ids /\ request[d].answer = "ok")
        /\ i \in request[d].ids /\ request[d].answer = "none" =>
              accepted[d][i] = 0 \/ i \in unanswered[d]

\* And what is in flight leaves out no older listen that is still owed.
OrderInv ==
    \A d \in Destinations, i, j \in Listens :
        /\ request[d].answer = "none" /\ i \in request[d].ids
        /\ j < i /\ delivery[d][j] = "pending" /\ j \notin Unacceptable
        => j \in request[d].ids

\* While the services reject no submission as such: what disables a destination is a
\* refused token.
RefusedInv ==
    \A d \in Destinations :
        /\ request[d].answer # "invalid"
        /\ request[d] # NoRequest => request[d].token # NoToken
        /\ request[d].answer = "refused" => refused[d] # NoToken

----------------------------------------------------------------------------
(* An upload. *)

LEMMA BatchOK ==
    ASSUME NEW unsent
    PROVE  /\ Batch(unsent) \subseteq unsent \ Unacceptable
           /\ Skipped(unsent) \subseteq unsent \intersect Unacceptable
BY DEF Batch, Skipped, Skippable

\* What uploadBacklog() may do to the rows and to the submission in flight.
Uploading(d, s, rows, free) ==
    /\ delivery' \in Rows
    /\ request' \in [Destinations -> Requests]
    /\ \A e \in Destinations : e # d => request'[e] = request[e] /\ delivery'[e] = rows[e]
    /\ \A i \in Listens :
        \/ delivery'[d][i] = rows[d][i]
        \/ rows[d][i] = "pending" /\ delivery'[d][i] = "sent" /\ i \in Unacceptable
    /\ \/ request'[d] = NoRequest /\ (free \/ request[d] = NoRequest)
       \/ ~free /\ request'[d] = request[d]
       \/ /\ free \/ request[d] = NoRequest
          /\ s.config.enabled
          /\ request'[d] = [ids |-> Batch(Pending(d, rows)),
                            token |-> s.config.token, answer |-> "none"]
          /\ \A i \in request'[d].ids : delivery'[d][i] = "pending"

LEMMA UploadEffect ==
    ASSUME TypeOK, NEW d \in Destinations, NEW s, s.config \in Configuration,
           NEW rows \in Rows, NEW free \in BOOLEAN, UploadBacklog(d, s, rows, free)
    PROVE  Uploading(d, s, rows, free)
<1> USE DEF Uploading
<1> DEFINE unsent == Pending(d, rows)
           b == Batch(unsent)
           k == Skipped(unsent)
<1>1. /\ unsent \subseteq Listens /\ b \subseteq Listens /\ k \subseteq Unacceptable
      /\ \A i \in b : i \in Listens /\ rows[d][i] = "pending" /\ i \notin k
      /\ \A i \in k : rows[d][i] = "pending"
  BY BatchOK DEF Pending
<1>2. "none" \in Answers /\ NoRequest.answer = "none"
      /\ NoRequest \in Requests
      /\ s.config.token \in Tokens
  BY DEF Answers, NoRequest, Configuration, Requests
<1>3. CASE CanUpload(s) /\ (free \/ Unoccupied(d)) /\ unsent # {}
  <2>1. /\ delivery' = MarkSent(d, k, rows)
        /\ request' = [request EXCEPT ![d] =
              IF b = {} THEN NoRequest
              ELSE [ids |-> b, token |-> s.config.token, answer |-> "none"]]
    BY <1>3 DEF UploadBacklog
  <2>2. /\ delivery' \in Rows
        /\ \A e \in Destinations : e # d => delivery'[e] = rows[e]
        /\ \A i \in Listens : delivery'[d][i] = IF i \in k THEN "sent" ELSE rows[d][i]
    BY <2>1, <1>1 DEF MarkSent, Rows
  <2> HIDE DEF unsent, b, k
  <2>3. /\ request' \in [Destinations -> Requests]
        /\ \A e \in Destinations : e # d => request'[e] = request[e]
        /\ request'[d] = IF b = {} THEN NoRequest
              ELSE [ids |-> b, token |-> s.config.token, answer |-> "none"]
    BY <2>1, <1>1, <1>2 DEF TypeOK, Requests
  <2>4. \A i \in b : delivery'[d][i] = "pending"
    BY <2>2, <1>1
  <2>5. s.config.enabled /\ (free \/ request[d] = NoRequest)
    BY <1>3 DEF CanUpload, Unoccupied
  <2>6. request'[d] = NoRequest
        \/ /\ request'[d] = [ids |-> b, token |-> s.config.token, answer |-> "none"]
           /\ request'[d].ids = b
    BY <2>3
  <2> QED
    BY <2>2, <2>3, <2>4, <2>5, <2>6, <1>1 DEF b, unsent
<1>4. CASE ~(CanUpload(s) /\ (free \/ Unoccupied(d)) /\ unsent # {})
  <2>1. /\ delivery' = rows
        /\ request' = IF free THEN [request EXCEPT ![d] = NoRequest] ELSE request
    BY <1>4 DEF UploadBacklog
  <2> QED
    BY <2>1, <1>2 DEF TypeOK, Rows
<1> QED
  BY <1>3, <1>4

----------------------------------------------------------------------------
(* Types, and the bound on the failures. *)

TypeInv == TypeOK /\ FailuresInv

LEMMA ConstantsOK ==
    /\ {"none", "ok", "refused", "later", "lost", "limited", "invalid"} = Answers
    /\ \A n \in 0 .. MaxListens : n < MaxListens => n + 1 \in Listens /\ n + 1 \in 0 .. MaxListens
    /\ \A n \in 0 .. MaxFaults : n < MaxFaults => n + 1 \in 0 .. MaxFaults
    /\ 0 \in 0 .. MaxListens /\ 0 \in 0 .. MaxFaults
    /\ 0 \in 0 .. MaxConsecutive /\ MaxConsecutive > 0
    /\ NoRequest \in Requests
    /\ NoRequest.ids = {} /\ NoRequest.answer = "none" /\ NoRequest.token = NoToken
BY DeliveryAssumption DEF Answers, Listens, NoRequest, Requests

\* A call queued is one more at the end of some queues.
LEMMA PostOK ==
    ASSUME TypeOK, NEW ds, NEW message,
           \A d \in Destinations : message[d] \in Calls,
           Post(ds, message)
    PROVE  mail' \in [Destinations -> Seq(Calls)]
<1>1. mail \in [Destinations -> Seq(Calls)] /\ \A d \in Destinations : message[d] \in Calls
  BY DEF TypeOK
<1>2. \A d \in Destinations : Append(mail[d], message[d]) \in Seq(Calls)
  BY <1>1
<1> QED
  BY <1>1, <1>2 DEF Post

LEMMA SavedOK ==
    ASSUME TypeOK
    PROVE  /\ \A d \in Destinations : Saved(d) \in Configuration
           /\ \A d \in Destinations : Upload[d] \in Calls
           /\ \A d \in Destinations : Idle(d).config \in Configuration
BY DEF Saved, Upload, Idle, Configuration, Calls, TypeOK

LEMMA SavedNextOK ==
    ASSUME enabled' \in [Destinations -> BOOLEAN], token' \in [Destinations -> Tokens],
           online' \in BOOLEAN
    PROVE  \A d \in Destinations : SavedNext[d] \in Calls
BY DEF SavedNext, Configuring, Configuration, Calls

LEMMA TypeInit == Init => TypeInv
<1> SUFFICES ASSUME Init PROVE TypeInv
  OBVIOUS
<1>1. TypeOK
  BY ConstantsOK DEF Init, TypeOK, Idle, Saved, Configuring, Configuration, Rows, Calls,
      Scrobblers
<1>2. FailuresInv
  BY ConstantsOK DEF Init, FailuresInv, Idle
<1> QED
  BY <1>1, <1>2 DEF TypeInv

\* What answers, edits and failures make of a scrobbler.
LEMMA ScrobblerOK ==
    ASSUME TypeOK, NEW d \in Destinations
    PROVE  /\ scrobbler[d] \in Scrobblers
           /\ Recovered(d) \in Scrobblers
           /\ Recovered(d).config = scrobbler[d].config
           /\ Recovered(d).failures \in {0, scrobbler[d].failures}
           /\ RateLimited(d) \in Scrobblers
           /\ RateLimited(d).config = scrobbler[d].config
           /\ RateLimited(d).failures = scrobbler[d].failures
           /\ \A s \in Scrobblers :
                /\ Disabled(s) \in Scrobblers
                /\ ~Disabled(s).config.enabled
                /\ Disabled(s).failures = s.failures
<1>1. scrobbler[d] \in Scrobblers
  BY DEF TypeOK
<1> DEFINE s == scrobbler[d]
<1>2. /\ 0 \in 0 .. MaxConsecutive /\ s.running \in BOOLEAN /\ s.config.enabled \in BOOLEAN
      /\ (s.running \/ (s.config.enabled /\ s.interval = "window")) \in BOOLEAN
  BY <1>1, ConstantsOK DEF Scrobblers, Configuration
<1>3. \A f \in 0 .. MaxConsecutive, n \in {"minute", "window"}, b \in BOOLEAN :
        LET r == [s EXCEPT !.failures = f, !.interval = n, !.running = b]
        IN r \in Scrobblers /\ r.config = s.config /\ r.failures = f
  BY <1>1 DEF Scrobblers
<1>4. /\ Recovered(d) \in Scrobblers /\ Recovered(d).config = s.config
      /\ Recovered(d).failures \in {0, s.failures}
  <2>1. CASE d \in LastFm
    BY <2>1, <1>1 DEF Recovered
  <2>2. CASE d \notin LastFm
    <3> DEFINE b == s.running \/ (s.config.enabled /\ s.interval = "window")
               r == [s EXCEPT !.failures = 0, !.interval = "minute", !.running = b]
    <3>1. Recovered(d) = r
      BY <2>2 DEF Recovered
    <3>2. b \in BOOLEAN
      BY <1>2
    <3> HIDE DEF b
    <3>3. r \in Scrobblers /\ r.config = s.config /\ r.failures = 0
      BY <1>2, <1>3, <3>2
    <3> QED
      BY <3>1, <3>3
  <2> QED
    BY <2>1, <2>2
<1>5. /\ RateLimited(d) \in Scrobblers /\ RateLimited(d).config = s.config
      /\ RateLimited(d).failures = s.failures
  BY <1>1 DEF RateLimited, Scrobblers
<1>6. ASSUME NEW r \in Scrobblers
      PROVE  /\ Disabled(r) \in Scrobblers /\ ~Disabled(r).config.enabled
             /\ Disabled(r).failures = r.failures
  <2>1. r.config \in Configuration
    BY DEF Scrobblers
  <2>2. [r.config EXCEPT !.enabled = FALSE] \in Configuration
        /\ ~[r.config EXCEPT !.enabled = FALSE].enabled
    BY <2>1 DEF Configuration
  <2> QED
    BY <2>2 DEF Disabled, Scrobblers
<1> QED
  BY <1>1, <1>4, <1>5, <1>6

\* configure().
Reconfigured(d, c) == [scrobbler[d] EXCEPT !.config = c, !.failures = 0,
                                           !.running = c.enabled /\ c.allowed]

LEMMA ReconfiguredOK ==
    ASSUME TypeOK, NEW d \in Destinations, NEW c \in Configuration
    PROVE  Reconfigured(d, c) \in Scrobblers /\ Reconfigured(d, c).config = c
           /\ Reconfigured(d, c).failures = 0
<1>1. scrobbler[d] \in Scrobblers /\ (c.enabled /\ c.allowed) \in BOOLEAN
  BY DEF TypeOK, Configuration
<1>2. \A b \in BOOLEAN :
        LET r == [scrobbler[d] EXCEPT !.config = c, !.failures = 0, !.running = b]
        IN r \in Scrobblers /\ r.config = c /\ r.failures = 0
  BY <1>1, ConstantsOK DEF Scrobblers
<1> QED
  BY <1>1, <1>2 DEF Reconfigured

\* The scrobbler of d after a call from its queue.
LEMMA HandleMailEffect ==
    ASSUME TypeOK, NEW d \in Destinations, HandleMail(d)
    PROVE  \E s \in Scrobblers :
             /\ scrobbler' = [scrobbler EXCEPT ![d] = s]
             /\ UploadBacklog(d, s, delivery, FALSE)
             /\ IF Head(mail[d]).call = "uploadBacklog" THEN s = scrobbler[d]
                ELSE s.failures = 0 /\ s.config = Head(mail[d]).config
<1>1. Head(mail[d]).config \in Configuration
  <2>1. mail[d] \in Seq(Calls) /\ mail[d] # <<>>
    BY DEF TypeOK, HandleMail
  <2>2. Head(mail[d]) \in Calls
    BY <2>1
  <2> QED
    BY <2>2 DEF Calls
<1>2. CASE Head(mail[d]).call = "uploadBacklog"
  <2>1. scrobbler' = [scrobbler EXCEPT ![d] = scrobbler[d]]
        /\ UploadBacklog(d, scrobbler[d], delivery, FALSE)
    BY <1>2 DEF HandleMail, TypeOK
  <2> QED
    BY <1>2, <2>1, ScrobblerOK
<1>3. CASE Head(mail[d]).call # "uploadBacklog"
  <2> DEFINE s == Reconfigured(d, Head(mail[d]).config)
  <2>1. scrobbler' = [scrobbler EXCEPT ![d] = s] /\ UploadBacklog(d, s, delivery, FALSE)
    BY <1>3 DEF HandleMail, Configure, Reconfigured
  <2>2. s \in Scrobblers /\ s.failures = 0 /\ s.config = Head(mail[d]).config
    BY <1>1, ReconfiguredOK
  <2> HIDE DEF s
  <2> QED
    BY <1>3, <2>1, <2>2
<1> QED
  BY <1>2, <1>3

LEMMA TypeStep == TypeInv /\ [Next]_vars => TypeInv'
<1> SUFFICES ASSUME TypeOK, FailuresInv, [Next]_vars PROVE TypeOK' /\ FailuresInv'
  BY DEF TypeInv
<1> USE DEF settings, services
<1>1. CASE RecordListen
  <2>1. mail' \in [Destinations -> Seq(Calls)]
    BY <1>1, PostOK, SavedOK DEF RecordListen
  <2>2. delivery' \in Rows
    BY <1>1 DEF RecordListen, TypeOK, Rows
  <2> QED
    BY <1>1, <2>1, <2>2, ConstantsOK DEF RecordListen, TypeOK, FailuresInv
<1>2. CASE SetOffline
  <2>1. mail' \in [Destinations -> Seq(Calls)]
    BY <1>2, PostOK, SavedNextOK DEF SetOffline, TypeOK
  <2> QED
    BY <1>2, <2>1 DEF SetOffline, TypeOK, FailuresInv
<1>3. CASE Crash
  <2>1. /\ scrobbler' \in [Destinations -> Scrobblers]
        /\ \A d \in Destinations : scrobbler'[d].failures = 0
    BY <1>3, ConstantsOK, SavedOK DEF Crash, Idle, Scrobblers
  <2>2. mail' \in [Destinations -> Seq(Calls)]
    <3>1. \A d \in Destinations : Configuring(Saved(d)) \in Calls
      BY SavedOK DEF Configuring, Calls
    <3> QED
      BY <1>3, <3>1 DEF Crash
  <2>3. /\ request' \in [Destinations -> Requests]
        /\ unanswered' \in [Destinations -> SUBSET Listens]
        /\ notices' \in [Destinations -> Nat] /\ faults' \in 0 .. MaxFaults
        /\ ping' \in [Destinations -> Tokens \union {NoToken}]
    BY <1>3, ConstantsOK DEF Crash, TypeOK, Requests
  <2> QED
    BY <1>3, <2>1, <2>2, <2>3, ConstantsOK DEF Crash, TypeOK, FailuresInv
<1>4. ASSUME NEW d \in Destinations, EditDestination(d) PROVE TypeOK' /\ FailuresInv'
  <2>1. enabled' \in [Destinations -> BOOLEAN] /\ token' \in [Destinations -> Tokens]
        /\ online' \in BOOLEAN
    <3>1. /\ enabled' = enabled \/ enabled' = [enabled EXCEPT ![d] = ~@]
          /\ token' = token \/ \E t \in Tokens : token' = [token EXCEPT ![d] = t]
          /\ online' = online
      BY <1>4 DEF EditDestination
    <3>2. enabled' \in [Destinations -> BOOLEAN]
      BY <3>1 DEF TypeOK
    <3>3. token' \in [Destinations -> Tokens]
      <4>1. \A t \in Tokens : [token EXCEPT ![d] = t] \in [Destinations -> Tokens]
        BY DEF TypeOK
      <4>2. token \in [Destinations -> Tokens]
        BY DEF TypeOK
      <4> QED
        BY <3>1, <4>1, <4>2
    <3>4. online' \in BOOLEAN
      BY <3>1 DEF TypeOK
    <3> QED
      BY <3>2, <3>3, <3>4
  <2>2. mail' \in [Destinations -> Seq(Calls)]
    BY <1>4, <2>1, PostOK, SavedNextOK DEF EditDestination
  <2> QED
    BY <1>4, <2>1, <2>2 DEF EditDestination, TypeOK, FailuresInv
<1>5. ASSUME NEW d \in Destinations, ClearPending(d) PROVE TypeOK' /\ FailuresInv'
  BY <1>5 DEF ClearPending, TypeOK, Rows, FailuresInv
<1>6. ASSUME NEW d \in Destinations, RetryPending(d) PROVE TypeOK' /\ FailuresInv'
  BY <1>6, PostOK, SavedOK DEF RetryPending, TypeOK, FailuresInv
<1>7. ASSUME NEW d \in Destinations, NEW i \in Listens, MarkOwed(d, i)
      PROVE  TypeOK' /\ FailuresInv'
  BY <1>7, PostOK, SavedOK DEF MarkOwed, TypeOK, Rows, FailuresInv
<1>8. ASSUME NEW d \in Destinations, HandleNotice(d) PROVE TypeOK' /\ FailuresInv'
  <2>1. /\ enabled' \in [Destinations -> BOOLEAN] /\ token' \in [Destinations -> Tokens]
        /\ online' \in BOOLEAN /\ notices' \in [Destinations -> Nat]
    BY <1>8 DEF HandleNotice, ApplyConfiguration, TypeOK
  <2>2. mail' \in [Destinations -> Seq(Calls)]
    BY <1>8, <2>1, PostOK, SavedNextOK DEF HandleNotice, ApplyConfiguration
  <2> QED
    BY <1>8, <2>1, <2>2 DEF HandleNotice, TypeOK, FailuresInv
<1>9. ASSUME NEW d \in Destinations, \E a \in Answers : Answer(d, a)
      PROVE  TypeOK' /\ FailuresInv'
  <2> PICK a \in Answers : Answer(d, a)
    BY <1>9
  <2>1. accepted' \in [Destinations -> [Listens -> 0 .. 2]]
    BY DEF Answer, TypeOK
  <2>2. faults' \in 0 .. MaxFaults
    <3>1. faults' = faults \/ (faults' = faults + 1 /\ faults < MaxFaults)
      BY DeliveryAssumption DEF Answer
    <3> QED
      BY <3>1, ConstantsOK DEF TypeOK
  <2>3. request' \in [Destinations -> Requests]
    <3>1. request[d] \in Requests /\ request' = [request EXCEPT ![d] = [@ EXCEPT !.answer = a]]
      BY DEF Answer, TypeOK
    <3>2. [request[d] EXCEPT !.answer = a] \in Requests
      BY <3>1 DEF Requests
    <3> QED
      BY <3>1, <3>2 DEF TypeOK
  <2>4. unanswered' \in [Destinations -> SUBSET Listens]
    BY DEF Answer, TypeOK, Requests
  <2>5. refused' \in [Destinations -> Tokens \union {NoToken}]
        /\ window' \in [Destinations -> BOOLEAN]
    BY DEF Answer, TypeOK, Requests
  <2>6. TypeOK'
    BY <2>1, <2>2, <2>3, <2>4, <2>5 DEF Answer, TypeOK
  <2>7. FailuresInv'
    BY DEF Answer, TypeOK, FailuresInv
  <2> QED
    BY <2>6, <2>7
<1>10. ASSUME NEW d \in Destinations, HandleMail(d) PROVE TypeOK' /\ FailuresInv'
  <2>1. PICK s \in Scrobblers :
           /\ scrobbler' = [scrobbler EXCEPT ![d] = s]
           /\ UploadBacklog(d, s, delivery, FALSE)
           /\ s = scrobbler[d] \/ s.failures = 0
    BY <1>10, HandleMailEffect
  <2>2. s.config \in Configuration
    BY DEF Scrobblers
  <2>3. mail' \in [Destinations -> Seq(Calls)]
    <3>1. mail \in [Destinations -> Seq(Calls)] /\ mail[d] # <<>>
      BY <1>10 DEF TypeOK, HandleMail
    <3>2. mail' \in [Destinations -> Seq(Calls)]
      BY <1>10, <3>1 DEF HandleMail
    <3> QED
      BY <3>2 DEF Calls
  <2>4. Uploading(d, s, delivery, FALSE)
    <3>1. delivery \in Rows /\ FALSE \in BOOLEAN
      BY DEF TypeOK
    <3> QED
      BY <2>1, <2>2, <3>1, UploadEffect, Zenon
  <2>5. TypeOK'
    BY <1>10, <2>1, <2>3, <2>4 DEF HandleMail, Uploading, TypeOK
  <2>6. \A e \in Destinations : scrobbler'[e] = IF e = d THEN s ELSE scrobbler[e]
    BY <2>1 DEF TypeOK
  <2>7. FailuresInv'
    BY <2>1, <2>4, <2>6, ConstantsOK DEF Uploading, FailuresInv
  <2> QED
    BY <2>5, <2>7
<1>11. ASSUME NEW d \in Destinations, RetryTimeout(d) PROVE TypeOK' /\ FailuresInv'
  <2>1. scrobbler[d].config \in Configuration /\ UploadBacklog(d, scrobbler[d], delivery, FALSE)
    BY <1>11, ScrobblerOK DEF RetryTimeout, Scrobblers
  <2>2. Uploading(d, scrobbler[d], delivery, FALSE)
    <3>1. delivery \in Rows /\ FALSE \in BOOLEAN
      BY DEF TypeOK
    <3> QED
      BY <2>1, <3>1, UploadEffect, Zenon
  <2> QED
    BY <1>11, <2>2 DEF RetryTimeout, Uploading, TypeOK, FailuresInv
<1>12. ASSUME NEW d \in Destinations, HandleAnswer(d) PROVE TypeOK' /\ FailuresInv'
  <2> DEFINE answer == request[d].answer
             failures == scrobbler[d].failures + 1
             counted == [scrobbler[d] EXCEPT !.failures = failures]
  <2>1. /\ answer # "none" /\ scrobbler[d].failures # MaxConsecutive
        /\ failures \in 0 .. MaxConsecutive
        /\ counted \in Scrobblers /\ counted.failures = failures
    <3>1. answer # "none"
      BY <1>12 DEF HandleAnswer
    <3>2. scrobbler[d].failures # MaxConsecutive /\ scrobbler[d].failures \in 0 .. MaxConsecutive
      BY <3>1, ScrobblerOK, ConstantsOK DEF FailuresInv, Scrobblers
    <3>3. failures \in 0 .. MaxConsecutive
      BY <3>2, DeliveryAssumption
    <3> QED
      BY <3>1, <3>2, <3>3, ScrobblerOK DEF Scrobblers
  <2>2. request[d].ids \subseteq Listens
    BY DEF TypeOK, Requests
  <2>3. CASE answer = "ok"
    <3>1. /\ scrobbler' = [scrobbler EXCEPT ![d] = Recovered(d)]
          /\ UploadBacklog(d, Recovered(d), MarkSent(d, request[d].ids, delivery), TRUE)
          /\ UNCHANGED <<notices, dropped>>
      BY <1>12, <2>3 DEF HandleAnswer, Counts
    <3>2. MarkSent(d, request[d].ids, delivery) \in Rows
      BY DEF MarkSent, Rows, TypeOK
    <3>3. Recovered(d) \in Scrobblers /\ Recovered(d).config \in Configuration
          /\ Recovered(d).failures # MaxConsecutive
      BY <2>1, ScrobblerOK, ConstantsOK DEF Scrobblers
    <3>4. Uploading(d, Recovered(d), MarkSent(d, request[d].ids, delivery), TRUE)
      BY <3>1, <3>2, <3>3, UploadEffect, TRUE \in BOOLEAN, Zenon
    <3>5. TypeOK'
      BY <1>12, <3>1, <3>3, <3>4 DEF HandleAnswer, Uploading, TypeOK
    <3>6. FailuresInv'
      BY <3>1, <3>3, <3>4 DEF Uploading, FailuresInv, TypeOK
    <3> QED
      BY <3>5, <3>6
  <2>4. CASE answer # "ok"
    <3>1. request' = [request EXCEPT ![d] = NoRequest]
      BY <1>12, <2>4 DEF HandleAnswer
    <3>2. delivery' \in Rows
      <4>1. MarkSent(d, request[d].ids, delivery) \in Rows /\ delivery \in Rows
        BY DEF MarkSent, Rows, TypeOK
      <4> QED
        BY <1>12, <2>4, <4>1 DEF HandleAnswer
    <3>3. dropped' \in [Destinations -> SUBSET Listens] /\ notices' \in [Destinations -> Nat]
      <4>1. /\ dropped' \in {dropped, [dropped EXCEPT ![d] = @ \union request[d].ids]}
            /\ notices' \in {notices, [notices EXCEPT ![d] = @ + 1]}
        BY <1>12, <2>4 DEF HandleAnswer, Disable
      <4>2. notices[d] + 1 \in Nat /\ dropped[d] \union request[d].ids \in SUBSET Listens
        BY <2>2 DEF TypeOK
      <4>3. dropped' \in [Destinations -> SUBSET Listens]
        <5>1. \A D \in SUBSET Listens :
                [dropped EXCEPT ![d] = D] \in [Destinations -> SUBSET Listens]
          BY DEF TypeOK
        <5>2. CASE dropped' = dropped
          BY <5>2 DEF TypeOK
        <5>3. CASE dropped' = [dropped EXCEPT ![d] = @ \union request[d].ids]
          BY <4>2, <5>1, <5>3
        <5> QED
          BY <4>1, <5>2, <5>3
      <4>4. notices' \in [Destinations -> Nat]
        BY <4>1, <4>2 DEF TypeOK
      <4> QED
        BY <4>3, <4>4
    <3>4. \E s \in Scrobblers :
            /\ scrobbler' = [scrobbler EXCEPT ![d] = s]
            /\ s.failures = MaxConsecutive => ~s.config.enabled
      <4>1. scrobbler = [scrobbler EXCEPT ![d] = scrobbler[d]]
        BY DEF TypeOK
      <4>2. ~TooMany(failures) => failures # MaxConsecutive
        BY <2>1 DEF TooMany
      <4>3. \/ scrobbler' = scrobbler
            \/ scrobbler' = [scrobbler EXCEPT ![d] = RateLimited(d)]
            \/ scrobbler' = [scrobbler EXCEPT ![d] = Disabled(scrobbler[d])]
            \/ scrobbler' = [scrobbler EXCEPT ![d] = Disabled(counted)]
            \/ scrobbler' = [scrobbler EXCEPT ![d] = counted] /\ ~TooMany(failures)
        BY <1>12, <2>4 DEF HandleAnswer, Disable
      <4> HIDE DEF failures, counted
      <4> QED
        BY <2>1, <4>1, <4>2, <4>3, ScrobblerOK
    <3>5. TypeOK'
      BY <1>12, <3>1, <3>2, <3>3, <3>4, ConstantsOK DEF HandleAnswer, TypeOK
    <3>6. FailuresInv'
      BY <3>1, <3>4 DEF FailuresInv, TypeOK
    <3> QED
      BY <3>5, <3>6
  <2> QED
    BY <2>3, <2>4
<1>13. ASSUME NEW d \in Destinations, HandlePlayingNow(d) PROVE TypeOK' /\ FailuresInv'
  <2>1. /\ ping' \in [Destinations -> Tokens \union {NoToken}]
        /\ refused' \in [Destinations -> Tokens \union {NoToken}]
        /\ notices' \in [Destinations -> Nat]
    <3>1. /\ ping' = [ping EXCEPT ![d] = NoToken]
          /\ refused' \in {refused, [refused EXCEPT ![d] = ping[d]]}
          /\ notices' \in {notices, [notices EXCEPT ![d] = @ + 1]}
      BY <1>13 DEF HandlePlayingNow, Disable
    <3>2. notices[d] + 1 \in Nat /\ ping[d] \in Tokens \union {NoToken}
      BY DEF TypeOK
    <3>3. notices' \in [Destinations -> Nat]
      BY <3>1, <3>2 DEF TypeOK
    <3>4. refused' \in [Destinations -> Tokens \union {NoToken}]
      BY <3>1, <3>2 DEF TypeOK
    <3> QED
      BY <3>1, <3>3, <3>4 DEF TypeOK
  <2>2. \E s \in Scrobblers :
          /\ scrobbler' = [scrobbler EXCEPT ![d] = s]
          /\ s.failures \in {0, scrobbler[d].failures}
          /\ s.config = scrobbler[d].config \/ ~s.config.enabled
    <3>1. scrobbler = [scrobbler EXCEPT ![d] = scrobbler[d]]
      BY DEF TypeOK
    <3>2. \/ scrobbler' = scrobbler
          \/ scrobbler' = [scrobbler EXCEPT ![d] = RateLimited(d)]
          \/ scrobbler' = [scrobbler EXCEPT ![d] = Recovered(d)]
          \/ scrobbler' = [scrobbler EXCEPT ![d] = Disabled(scrobbler[d])]
      BY <1>13 DEF HandlePlayingNow, Disable
    <3> QED
      BY <3>1, <3>2, ScrobblerOK
  <2>3. TypeOK'
    BY <1>13, <2>1, <2>2 DEF HandlePlayingNow, TypeOK, Scrobblers
  <2>4. FailuresInv'
    BY <1>13, <2>2, ConstantsOK DEF HandlePlayingNow, FailuresInv, TypeOK
  <2> QED
    BY <2>3, <2>4
<1>14. ASSUME NEW d \in Destinations, SubmitPlayingNow(d) PROVE TypeOK' /\ FailuresInv'
  <2>1. scrobbler[d].config.token \in Tokens
    BY ScrobblerOK DEF Scrobblers, Configuration
  <2> QED
    BY <1>14, <2>1 DEF SubmitPlayingNow, TypeOK, FailuresInv
<1>15. ASSUME NEW d \in Destinations, WindowEnds(d) PROVE TypeOK' /\ FailuresInv'
  BY <1>15 DEF WindowEnds, TypeOK, FailuresInv
<1>16. CASE UNCHANGED vars
  BY <1>16 DEF vars, TypeOK, FailuresInv
<1> QED
  BY <1>1, <1>2, <1>3, <1>4, <1>5, <1>6, <1>7, <1>8, <1>9, <1>10, <1>11, <1>12, <1>13,
     <1>14, <1>15, <1>16 DEF Next, User, Service

THEOREM TypeCorrect == Spec => []TypeOK
<1>1. TypeInv => TypeOK
  BY DEF TypeInv
<1> QED
  BY <1>1, TypeInit, TypeStep, PTL DEF Spec

----------------------------------------------------------------------------
(* The steps, as seen by the rows and the submission in flight. *)

\* A call from the queue or the retry timer can only start an upload.
LEMMA PokeEffect ==
    ASSUME TypeOK, NEW d \in Destinations, HandleMail(d) \/ RetryTimeout(d)
    PROVE  /\ \E s \in Scrobblers : Uploading(d, s, delivery, FALSE)
           /\ UNCHANGED <<recorded, settings, services, notices>>
<1>1. \E s \in Scrobblers : UploadBacklog(d, s, delivery, FALSE)
  BY HandleMailEffect, ScrobblerOK DEF RetryTimeout
<1>2. PICK s \in Scrobblers : UploadBacklog(d, s, delivery, FALSE)
  BY <1>1
<1>3. s.config \in Configuration /\ delivery \in Rows /\ FALSE \in BOOLEAN
  BY DEF Scrobblers, TypeOK
<1>4. Uploading(d, s, delivery, FALSE)
  BY <1>2, <1>3, UploadEffect, Zenon
<1> QED
  BY <1>4 DEF HandleMail, RetryTimeout

\* An answer ends the submission.  Its listens are marked sent if they were taken,
\* and the next batch is built then, or if Last.fm will never take them.
LEMMA AnswerEffect ==
    ASSUME TypeOK, NEW d \in Destinations, HandleAnswer(d)
    PROVE  /\ UNCHANGED <<recorded, settings, accepted, unanswered, window, refused>>
           /\ \/ /\ request[d].answer = "ok"
                 /\ Uploading(d, Recovered(d), MarkSent(d, request[d].ids, delivery), TRUE)
                 /\ UNCHANGED dropped
              \/ /\ request[d].answer # "ok"
                 /\ request' = [request EXCEPT ![d] = NoRequest]
                 /\ \/ UNCHANGED <<delivery, dropped>>
                    \/ /\ delivery' = MarkSent(d, request[d].ids, delivery)
                       /\ dropped' = [dropped EXCEPT ![d] = @ \union request[d].ids]
<1>1. UNCHANGED <<recorded, settings, accepted, unanswered, window, refused>>
  BY DEF HandleAnswer, settings
<1>2. CASE request[d].answer = "ok"
  <2>1. UploadBacklog(d, Recovered(d), MarkSent(d, request[d].ids, delivery), TRUE)
        /\ UNCHANGED dropped
    BY <1>2 DEF HandleAnswer, Counts
  <2>2. MarkSent(d, request[d].ids, delivery) \in Rows /\ TRUE \in BOOLEAN
    BY DEF MarkSent, Rows, TypeOK
  <2>3. Recovered(d).config \in Configuration
    BY ScrobblerOK DEF Scrobblers
  <2>4. Uploading(d, Recovered(d), MarkSent(d, request[d].ids, delivery), TRUE)
    BY <2>1, <2>2, <2>3, UploadEffect, Zenon
  <2> QED
    BY <1>1, <1>2, <2>1, <2>4
<1>3. CASE request[d].answer # "ok"
  <2>1. /\ request' = [request EXCEPT ![d] = NoRequest]
        /\ \/ UNCHANGED <<delivery, dropped>>
           \/ /\ delivery' = MarkSent(d, request[d].ids, delivery)
              /\ dropped' = [dropped EXCEPT ![d] = @ \union request[d].ids]
    BY <1>3 DEF HandleAnswer
  <2> QED
    BY <1>1, <1>3, <2>1
<1> QED
  BY <1>2, <1>3

\* What a service does to a submission and to the listens in it.
LEMMA ServiceEffect ==
    ASSUME TypeOK, NEW d \in Destinations, NEW a \in Answers, Answer(d, a)
    PROVE  /\ UNCHANGED <<recorded, delivery, settings, scrobbler, mail, notices, dropped>>
           /\ request[d].answer = "none" /\ request[d] # NoRequest
           /\ request' \in [Destinations -> Requests]
           /\ request'[d].answer = a /\ request'[d].ids = request[d].ids
           /\ \A e \in Destinations : e # d => request'[e] = request[e]
           /\ \A e \in Destinations, i \in Listens :
                /\ accepted[e][i] \in 0 .. 2
                /\ accepted'[e][i] =
                     IF a \in {"ok", "lost"} /\ e = d /\ i \in request[d].ids /\ accepted[d][i] < 2
                     THEN accepted[e][i] + 1 ELSE accepted[e][i]
           /\ unanswered' = IF a = "lost"
                            THEN [unanswered EXCEPT ![d] = @ \union request[d].ids]
                            ELSE unanswered
<1>1. /\ UNCHANGED <<recorded, delivery, settings, scrobbler, mail, notices, dropped>>
      /\ request[d].answer = "none" /\ request[d] # NoRequest
      /\ unanswered' = IF a = "lost"
                       THEN [unanswered EXCEPT ![d] = @ \union request[d].ids]
                       ELSE unanswered
  BY DEF Answer, settings
<1>2. /\ request' \in [Destinations -> Requests]
      /\ request'[d].answer = a /\ request'[d].ids = request[d].ids
      /\ \A e \in Destinations : e # d => request'[e] = request[e]
  <2>1. request[d] \in Requests /\ request' = [request EXCEPT ![d] = [@ EXCEPT !.answer = a]]
    BY DEF Answer, TypeOK
  <2>2. /\ [request[d] EXCEPT !.answer = a] \in Requests
        /\ [request[d] EXCEPT !.answer = a].answer = a
        /\ [request[d] EXCEPT !.answer = a].ids = request[d].ids
    BY <2>1 DEF Requests
  <2> QED
    BY <2>1, <2>2 DEF TypeOK
<1>3. \A e \in Destinations, i \in Listens : accepted[e][i] \in 0 .. 2
  BY DEF TypeOK
<1>4. \A e \in Destinations, i \in Listens :
        accepted'[e][i] =
          IF a \in {"ok", "lost"} /\ e = d /\ i \in request[d].ids /\ accepted[d][i] < 2
          THEN accepted[e][i] + 1 ELSE accepted[e][i]
  <2>1. CASE a \in {"ok", "lost"}
    <3>1. accepted' = [accepted EXCEPT ![d] =
             [i \in Listens |-> IF i \in request[d].ids /\ accepted[d][i] < 2
                                THEN accepted[d][i] + 1 ELSE accepted[d][i]]]
      BY <2>1 DEF Answer
    <3> QED
      BY <2>1, <3>1 DEF TypeOK
  <2>2. CASE a \notin {"ok", "lost"}
    BY <2>2 DEF Answer
  <2> QED
    BY <2>1, <2>2
<1> QED
  BY <1>1, <1>2, <1>3, <1>4

LEMMA MarkSentOK ==
    ASSUME TypeOK, NEW d \in Destinations
    PROVE  \A e \in Destinations, i \in Listens :
             MarkSent(d, request[d].ids, delivery)[e][i] =
                IF e = d /\ i \in request[d].ids /\ delivery[d][i] # "none" THEN "sent"
                ELSE delivery[e][i]
BY DEF MarkSent, TypeOK, Rows

----------------------------------------------------------------------------
(* A row is marked sent only for a reason. *)

LEMMA DeliveryStep ==
    ASSUME TypeOK, TypeOK', AnswerInv, SentMeansDelivered, [Next]_vars
    PROVE  AnswerInv' /\ SentMeansDelivered'
<1> USE DEF settings, services
<1>1. CASE RecordListen
  BY <1>1 DEF RecordListen, TypeOK, Rows, AnswerInv, SentMeansDelivered
<1>2. CASE Crash
  BY <1>2, ConstantsOK DEF Crash, AnswerInv, SentMeansDelivered
<1>3. ASSUME NEW d \in Destinations, ClearPending(d) \/ \E i \in Listens : MarkOwed(d, i)
      PROVE  AnswerInv' /\ SentMeansDelivered'
  <2>1. \A e \in Destinations, i \in Listens :
          delivery'[e][i] = "sent" => delivery[e][i] = "sent"
    <3>1. CASE ClearPending(d)
      BY <3>1 DEF ClearPending, TypeOK, Rows
    <3>2. ASSUME NEW j \in Listens, MarkOwed(d, j)
          PROVE  \A e \in Destinations, i \in Listens :
                   delivery'[e][i] = "sent" => delivery[e][i] = "sent"
      BY <3>2 DEF MarkOwed, TypeOK, Rows
    <3> QED
      BY <1>3, <3>1, <3>2
  <2>2. UNCHANGED <<request, accepted, dropped>>
    BY <1>3 DEF ClearPending, MarkOwed
  <2> QED
    BY <2>1, <2>2 DEF AnswerInv, SentMeansDelivered
<1>4. ASSUME NEW d \in Destinations, NEW a \in Answers, Answer(d, a)
      PROVE  AnswerInv' /\ SentMeansDelivered'
  <2>1. \A e \in Destinations, i \in Listens :
          /\ accepted[e][i] > 0 => accepted'[e][i] > 0
          /\ a = "ok" /\ e = d /\ i \in request[d].ids => accepted'[e][i] > 0
    BY <1>4, ServiceEffect
  <2> QED
    BY <1>4, <2>1, ServiceEffect DEF AnswerInv, SentMeansDelivered
<1>5. ASSUME NEW d \in Destinations, HandleMail(d) \/ RetryTimeout(d)
      PROVE  AnswerInv' /\ SentMeansDelivered'
  <2>1. UNCHANGED <<accepted, dropped>>
    BY <1>5, PokeEffect
  <2>2. PICK s \in Scrobblers : Uploading(d, s, delivery, FALSE)
    BY <1>5, PokeEffect
  <2> QED
    BY <2>1, <2>2, ConstantsOK DEF Uploading, AnswerInv, SentMeansDelivered
<1>6. ASSUME NEW d \in Destinations, HandleAnswer(d)
      PROVE  AnswerInv' /\ SentMeansDelivered'
  <2>1. CASE request[d].answer = "ok"
    <3>1. /\ Uploading(d, Recovered(d), MarkSent(d, request[d].ids, delivery), TRUE)
          /\ UNCHANGED <<accepted, dropped>>
      BY <1>6, <2>1, AnswerEffect
    <3>2. \A e \in Destinations, i \in Listens :
            delivery'[e][i] = "sent" =>
              \/ delivery[e][i] = "sent" \/ i \in Unacceptable
              \/ e = d /\ i \in request[d].ids
      <4> HIDE DEF MarkSent
      <4> QED
        BY <3>1, MarkSentOK DEF Uploading
    <3>3. SentMeansDelivered'
      BY <2>1, <3>1, <3>2 DEF AnswerInv, SentMeansDelivered
    <3>4. AnswerInv'
      BY <3>1, ConstantsOK DEF Uploading, AnswerInv
    <3> QED
      BY <3>3, <3>4
  <2>2. CASE request[d].answer # "ok"
    <3>1. /\ request' = [request EXCEPT ![d] = NoRequest] /\ UNCHANGED accepted
          /\ \/ UNCHANGED <<delivery, dropped>>
             \/ /\ delivery' = MarkSent(d, request[d].ids, delivery)
                /\ dropped' = [dropped EXCEPT ![d] = @ \union request[d].ids]
      BY <1>6, <2>2, AnswerEffect
    <3>2. SentMeansDelivered'
      <4>1. CASE UNCHANGED <<delivery, dropped>>
        BY <3>1, <4>1 DEF SentMeansDelivered
      <4>2. CASE /\ delivery' = MarkSent(d, request[d].ids, delivery)
                 /\ dropped' = [dropped EXCEPT ![d] = @ \union request[d].ids]
        <5>1. \A e \in Destinations, i \in Listens :
                delivery'[e][i] = "sent" =>
                  delivery[e][i] = "sent" \/ (e = d /\ i \in request[d].ids)
          BY <4>2, MarkSentOK
        <5>2. \A e \in Destinations :
                dropped'[e] = IF e = d THEN dropped[e] \union request[d].ids ELSE dropped[e]
          BY <4>2 DEF TypeOK
        <5> QED
          BY <3>1, <5>1, <5>2 DEF SentMeansDelivered
      <4> QED
        BY <3>1, <4>1, <4>2
    <3>3. AnswerInv'
      BY <3>1, ConstantsOK DEF TypeOK, AnswerInv
    <3> QED
      BY <3>2, <3>3
  <2> QED
    BY <2>1, <2>2
<1>7. CASE UNCHANGED <<delivery, request, accepted, dropped>>
  BY <1>7 DEF AnswerInv, SentMeansDelivered
<1> QED
  BY <1>1, <1>2, <1>3, <1>4, <1>5, <1>6, <1>7
     DEF Next, vars, User, Service, SetOffline, EditDestination, RetryPending,
         HandleNotice, HandlePlayingNow, SubmitPlayingNow, WindowEnds

\* A row of the history is marked sent for a destination only when that destination
\* took the listen, could never take it, or refused it for good.
THEOREM SentDelivered == Spec => []SentMeansDelivered
<1> DEFINE Inv == TypeInv /\ AnswerInv /\ SentMeansDelivered
<1>1. Init => Inv
  <2>1. Init => AnswerInv /\ SentMeansDelivered
    BY ConstantsOK DEF Init, AnswerInv, SentMeansDelivered
  <2> QED
    BY <2>1, TypeInit
<1>2. Inv /\ [Next]_vars => Inv'
  BY TypeStep, DeliveryStep DEF TypeInv
<1> QED
  BY <1>1, <1>2, PTL DEF Spec

----------------------------------------------------------------------------
(* Configurations, and what disables a destination. *)

\* One more call in a queue.
LEMMA AppendOK ==
    ASSUME NEW q \in Seq(Calls), NEW c, NEW m \in Calls
    PROVE  /\ m = Configuring(c) => LastConfigures(Append(q, m), c)
           /\ ~Configures(m) /\ LastConfigures(q, c) => LastConfigures(Append(q, m), c)
           /\ ~Configures(m) /\ NoneConfigures(q) => NoneConfigures(Append(q, m))
<1>1. /\ Append(q, m) \in Seq(Calls) /\ Len(Append(q, m)) = Len(q) + 1 /\ Len(q) \in Nat
      /\ Append(q, m)[Len(q) + 1] = m
      /\ \A k \in 1 .. Len(q) : Append(q, m)[k] = q[k] /\ q[k] \in Calls
  OBVIOUS
<1>2. m = Configuring(c) => LastConfigures(Append(q, m), c)
  <2>1. ~\E l \in Len(q) + 1 + 1 .. Len(q) + 1 : TRUE
    BY <1>1
  <2> QED
    BY <1>1, <2>1 DEF LastConfigures
<1>3. ~Configures(m) /\ LastConfigures(q, c) => LastConfigures(Append(q, m), c)
  BY <1>1 DEF LastConfigures
<1>4. ~Configures(m) /\ NoneConfigures(q) => NoneConfigures(Append(q, m))
  BY <1>1 DEF NoneConfigures
<1> QED
  BY <1>2, <1>3, <1>4

\* One call fewer.
LEMMA TailOK ==
    ASSUME NEW q \in Seq(Calls), NEW c, q # <<>>
    PROVE  /\ NoneConfigures(q) => NoneConfigures(Tail(q)) /\ Head(q).call = "uploadBacklog"
           /\ LastConfigures(q, c) =>
                \/ LastConfigures(Tail(q), c)
                \/ NoneConfigures(Tail(q)) /\ Head(q) = Configuring(c)
<1>1. /\ Len(q) \in Nat /\ Len(q) >= 1 /\ Len(Tail(q)) = Len(q) - 1 /\ Head(q) = q[1]
      /\ \A k \in 1 .. Len(q) : q[k] \in Calls
      /\ \A k \in 1 .. Len(q) - 1 : Tail(q)[k] = q[k + 1]
  OBVIOUS
<1>2. ASSUME NoneConfigures(q)
      PROVE  NoneConfigures(Tail(q)) /\ Head(q).call = "uploadBacklog"
  BY <1>1, <1>2 DEF NoneConfigures, Configures, Calls
<1>3. ASSUME LastConfigures(q, c)
      PROVE  \/ LastConfigures(Tail(q), c)
             \/ NoneConfigures(Tail(q)) /\ Head(q) = Configuring(c)
  <2>1. PICK k \in 1 .. Len(q) : q[k] = Configuring(c)
                                 /\ \A l \in k + 1 .. Len(q) : ~Configures(q[l])
    BY <1>3 DEF LastConfigures
  <2>2. CASE k = 1
    BY <1>1, <2>1, <2>2 DEF NoneConfigures
  <2>3. CASE k # 1
    <3>1. /\ k - 1 \in 1 .. Len(Tail(q)) /\ Tail(q)[k - 1] = Configuring(c)
          /\ \A l \in k - 1 + 1 .. Len(Tail(q)) :
               l + 1 \in k + 1 .. Len(q) /\ Tail(q)[l] = q[l + 1]
      BY <1>1, <2>1, <2>3
    <3> QED
      BY <2>1, <3>1 DEF LastConfigures
  <2> QED
    BY <2>2, <2>3
<1> QED
  BY <1>2, <1>3

\* The first call queued after a start.
LEMMA FirstOK == \A c : LastConfigures(<<Configuring(c)>>, c)
<1> TAKE c
<1> DEFINE q == <<Configuring(c)>>
<1>1. Len(q) = 1 /\ q[1] = Configuring(c)
  OBVIOUS
<1> HIDE DEF q
<1>2. 1 \in 1 .. Len(q) /\ \A l \in 2 .. Len(q) : FALSE
  BY <1>1
<1> QED
  BY <1>1, <1>2 DEF LastConfigures, q

LEMMA ConfigStep ==
    ASSUME TypeOK, TypeOK', ConfigInv, [Next]_vars
    PROVE  ConfigInv'
<1> USE DEF settings, services
<1>1. ASSUME NEW ds, NEW message, Post(ds, message), UNCHANGED <<settings, scrobbler, notices>>,
             \A d \in Destinations : message[d] \in Calls /\ ~Configures(message[d])
      PROVE  ConfigInv'
  <2> SUFFICES ASSUME NEW d \in Destinations
               PROVE  \/ LastConfigures(mail[d], Saved(d))'
                      \/ /\ NoneConfigures(mail[d])'
                         /\ (scrobbler[d].config = Saved(d) \/ notices[d] > 0)'
    BY DEF ConfigInv
  <2>1. Saved(d)' = Saved(d)
    BY <1>1 DEF Saved
  <2>2. mail[d] \in Seq(Calls) /\ (mail'[d] = mail[d] \/ mail'[d] = Append(mail[d], message[d]))
    BY <1>1 DEF TypeOK, Post
  <2>3. \/ LastConfigures(mail'[d], Saved(d))
        \/ NoneConfigures(mail'[d]) /\ (scrobbler[d].config = Saved(d) \/ notices[d] > 0)
    BY <1>1, <2>2, AppendOK DEF ConfigInv
  <2> QED
    BY <1>1, <2>1, <2>3 DEF LastConfigures, NoneConfigures
<1>2. ASSUME NEW ds, Post(ds, SavedNext), UNCHANGED scrobbler,
             \A d \in Destinations \ ds : Saved(d)' = Saved(d) /\ notices'[d] = notices[d]
      PROVE  ConfigInv'
  <2> SUFFICES ASSUME NEW d \in Destinations
               PROVE  \/ LastConfigures(mail[d], Saved(d))'
                      \/ /\ NoneConfigures(mail[d])'
                         /\ (scrobbler[d].config = Saved(d) \/ notices[d] > 0)'
    BY DEF ConfigInv
  <2>1. CASE d \in ds
    <3>1. SavedNext[d] = Configuring(Saved(d)') /\ SavedNext[d] \in Calls
      BY SavedNextOK DEF SavedNext, Saved, TypeOK
    <3>2. mail[d] \in Seq(Calls) /\ mail'[d] = Append(mail[d], SavedNext[d])
      BY <1>2, <2>1 DEF TypeOK, Post
    <3>3. LastConfigures(mail'[d], Saved(d)')
      BY <3>1, <3>2, AppendOK
    <3> QED
      BY <3>3 DEF LastConfigures
  <2>2. CASE d \notin ds
    <3>1. mail'[d] = mail[d] /\ Saved(d)' = Saved(d) /\ notices'[d] = notices[d]
      BY <1>2, <2>2 DEF Post
    <3> QED
      BY <1>2, <3>1 DEF ConfigInv, LastConfigures, NoneConfigures
  <2> QED
    BY <2>1, <2>2
<1>3. CASE RecordListen
  BY <1>1, <1>3, SavedOK DEF RecordListen, Configures, Upload
<1>4. CASE SetOffline
  BY <1>2, <1>4 DEF SetOffline
<1>5. CASE Crash
  <2>1. \A d \in Destinations : Saved(d)' = Saved(d) /\ mail'[d] = <<Configuring(Saved(d))>>
    BY <1>5 DEF Crash, Saved
  <2>2. \A d \in Destinations : LastConfigures(mail[d], Saved(d))'
    <3> TAKE d \in Destinations
    <3>1. LastConfigures(mail'[d], Saved(d)')
      BY <2>1, FirstOK
    <3> QED
      BY <3>1 DEF LastConfigures
  <2> QED
    BY <2>2 DEF ConfigInv
<1>6. ASSUME NEW d \in Destinations, EditDestination(d) PROVE ConfigInv'
  BY <1>2, <1>6 DEF EditDestination
<1>7. ASSUME NEW d \in Destinations, RetryPending(d) \/ \E i \in Listens : MarkOwed(d, i)
      PROVE  ConfigInv'
  BY <1>1, <1>7, SavedOK DEF RetryPending, MarkOwed, Configures, Upload
<1>8. ASSUME NEW d \in Destinations, HandleNotice(d) PROVE ConfigInv'
  <2>1. d \in Configured(d)
    BY DEF Configured
  <2>2. Post(Configured(d), SavedNext) /\ UNCHANGED scrobbler
    BY <1>8 DEF HandleNotice, ApplyConfiguration
  <2>3. \A e \in Destinations \ Configured(d) : Saved(e)' = Saved(e) /\ notices'[e] = notices[e]
    BY <1>8, <2>1 DEF HandleNotice, ApplyConfiguration, Saved, TypeOK
  <2> QED
    BY <1>2, <2>2, <2>3
<1>9. ASSUME NEW d \in Destinations, HandleMail(d) PROVE ConfigInv'
  <2>1. PICK s \in Scrobblers :
           /\ scrobbler' = [scrobbler EXCEPT ![d] = s]
           /\ IF Head(mail[d]).call = "uploadBacklog" THEN s = scrobbler[d]
              ELSE s.config = Head(mail[d]).config
    BY <1>9, HandleMailEffect
  <2>2. /\ mail[d] \in Seq(Calls) /\ mail[d] # <<>> /\ mail' = [mail EXCEPT ![d] = Tail(@)]
        /\ UNCHANGED <<settings, notices>>
    BY <1>9 DEF HandleMail, TypeOK
  <2> SUFFICES ASSUME NEW e \in Destinations
               PROVE  \/ LastConfigures(mail[e], Saved(e))'
                      \/ /\ NoneConfigures(mail[e])'
                         /\ (scrobbler[e].config = Saved(e) \/ notices[e] > 0)'
    BY DEF ConfigInv
  <2>3. Saved(e)' = Saved(e)
    BY <2>2 DEF Saved
  <2>4. CASE e # d
    <3>1. mail'[e] = mail[e] /\ scrobbler'[e] = scrobbler[e] /\ notices'[e] = notices[e]
      BY <2>1, <2>2, <2>4 DEF TypeOK
    <3> QED
      BY <2>3, <3>1 DEF ConfigInv, LastConfigures, NoneConfigures
  <2>5. CASE e = d
    <3>1. mail'[d] = Tail(mail[d]) /\ scrobbler'[d] = s /\ notices'[d] = notices[d]
      BY <2>1, <2>2 DEF TypeOK
    <3>2. Head(mail[d]) = Configuring(Saved(d)) => s.config = Saved(d)
      BY <2>1 DEF Configuring
    <3>3. \/ LastConfigures(mail'[d], Saved(d))
          \/ NoneConfigures(mail'[d]) /\ (s.config = Saved(d) \/ notices'[d] > 0)
      BY <2>1, <2>2, <3>1, <3>2, TailOK DEF ConfigInv
    <3> QED
      BY <2>3, <2>5, <3>1, <3>3 DEF LastConfigures, NoneConfigures
  <2> QED
    BY <2>4, <2>5
<1>10. ASSUME NEW d \in Destinations, HandleAnswer(d) \/ HandlePlayingNow(d)
       PROVE  ConfigInv'
  <2>1. /\ UNCHANGED <<settings, mail>>
        /\ \A e \in Destinations :
             \/ scrobbler'[e].config = scrobbler[e].config /\ notices'[e] = notices[e]
             \/ notices'[e] > 0
    <3>1. /\ UNCHANGED <<settings, mail>>
          /\ \/ UNCHANGED notices /\ \/ scrobbler' = scrobbler
                                     \/ scrobbler' = [scrobbler EXCEPT ![d] = RateLimited(d)]
                                     \/ scrobbler' = [scrobbler EXCEPT ![d] = Recovered(d)]
                                     \/ scrobbler' = [scrobbler EXCEPT ![d] =
                                           [scrobbler[d] EXCEPT !.failures =
                                               scrobbler[d].failures + 1]]
             \/ /\ notices' = [notices EXCEPT ![d] = @ + 1]
                /\ \E s : scrobbler' = [scrobbler EXCEPT ![d] = s]
      BY <1>10 DEF HandleAnswer, HandlePlayingNow, Disable, Counts
    <3>2. notices[d] \in Nat /\ [scrobbler[d] EXCEPT !.failures = scrobbler[d].failures + 1].config
                                = scrobbler[d].config
      BY ScrobblerOK DEF TypeOK, Scrobblers
    <3>3. CASE UNCHANGED notices
      <4>1. \A e \in Destinations : e # d => scrobbler'[e] = scrobbler[e]
        BY <3>1, <3>3 DEF TypeOK
      <4>2. [notices EXCEPT ![d] = @ + 1] # notices
        BY <3>2 DEF TypeOK
      <4>3. scrobbler'[d] \in {scrobbler[d], RateLimited(d), Recovered(d),
                [scrobbler[d] EXCEPT !.failures = scrobbler[d].failures + 1]}
        BY <3>1, <3>3, <4>2 DEF TypeOK
      <4>4. scrobbler'[d].config = scrobbler[d].config
        BY <3>2, <4>3, ScrobblerOK
      <4> QED
        BY <3>1, <3>3, <4>1, <4>4
    <3>4. CASE notices' = [notices EXCEPT ![d] = @ + 1]
               /\ \E s : scrobbler' = [scrobbler EXCEPT ![d] = s]
      BY <3>1, <3>2, <3>4 DEF TypeOK
    <3> QED
      BY <3>1, <3>3, <3>4
  <2>2. \A e \in Destinations : Saved(e)' = Saved(e)
    BY <2>1 DEF Saved
  <2> QED
    BY <2>1, <2>2 DEF ConfigInv, LastConfigures, NoneConfigures
<1>11. CASE UNCHANGED <<settings, scrobbler, mail, notices>>
  <2>1. \A e \in Destinations : Saved(e)' = Saved(e)
    BY <1>11 DEF Saved
  <2> QED
    BY <1>11, <2>1 DEF ConfigInv, LastConfigures, NoneConfigures
<1> QED
  BY <1>3, <1>4, <1>5, <1>6, <1>7, <1>8, <1>9, <1>10, <1>11
     DEF Next, vars, User, Service, ClearPending, Answer, RetryTimeout, SubmitPlayingNow,
         WindowEnds

\* When no call and no signal is on its way, every scrobbler runs with the settings
\* saved for its destination, whatever edits, failures and restarts crossed.
THEOREM ConfigurationSettled == Spec => []ConfigurationSettles
<1> DEFINE Inv == TypeInv /\ ConfigInv
<1>1. Init => Inv
  <2>1. Init => ConfigInv
    <3> SUFFICES ASSUME Init, NEW d \in Destinations PROVE LastConfigures(mail[d], Saved(d))
      BY DEF ConfigInv
    <3>1. mail[d] = <<Configuring(Saved(d))>>
      BY DEF Init
    <3> QED
      BY <3>1, FirstOK
  <2> QED
    BY <2>1, TypeInit
<1>2. Inv /\ [Next]_vars => Inv'
  BY TypeStep, ConfigStep DEF TypeInv
<1>3. Inv => ConfigurationSettles
  <2> SUFFICES ASSUME TypeOK, ConfigInv, NEW d \in Destinations,
                      mail[d] = <<>>, notices[d] = 0
               PROVE  scrobbler[d].config = Saved(d)
    BY DEF TypeInv, ConfigurationSettles
  <2>1. ~LastConfigures(mail[d], Saved(d))
    BY DEF LastConfigures
  <2> QED
    BY <2>1 DEF ConfigInv
<1> QED
  BY <1>1, <1>2, <1>3, PTL DEF Spec

----------------------------------------------------------------------------
(* The order of the submissions, and what is submitted again. *)

LEMMA DivMonotonic ==
    ASSUME NEW a \in Nat, NEW b \in Nat, NEW m \in Nat \ {0}, a <= b
    PROVE  a \div m <= b \div m
<1>1. /\ a \div m \in Int /\ b \div m \in Int
      /\ m * (a \div m) <= a /\ b < m * (b \div m) + m
  OBVIOUS
<1>2. ASSUME NEW x \in Int, NEW y \in Int, x >= y + 1 PROVE m * x >= m * y + m
  <2>1. PICK k \in Nat : x = y + 1 + k
    BY <1>2
  <2>2. m * x = m * y + m + m * k /\ m * k >= 0
    BY <2>1
  <2> QED
    BY <2>2
<1> QED
  BY <1>1, <1>2

\* unsent() is oldest first: a batch leaves out no older listen it could hold.
LEMMA BatchInOrder ==
    ASSUME NEW unsent \in SUBSET Listens, NEW i \in Batch(unsent),
           NEW j \in unsent, j < i, j \notin Unacceptable
    PROVE  j \in Batch(unsent)
<1> DEFINE before(k) == {h \in unsent : h < k}
           page(k) == Cardinality(before(k)) \div MaxBatch
<1>1. i \in unsent /\ i \in Nat /\ j \in Nat /\ \A k \in unsent : k \in Nat
  <2>1. i \in unsent
    BY BatchOK
  <2>2. Listens \subseteq Nat
    BY DeliveryAssumption DEF Listens
  <2> QED
    BY <2>1, <2>2
<1>2. IsFiniteSet(unsent)
  <2>1. MaxListens \in Int /\ 1 \in Int
    BY DeliveryAssumption
  <2> QED
    BY <2>1, FS_Interval, FS_Subset DEF Listens
<1>3. before(j) \subseteq before(i) /\ before(i) \subseteq unsent
  <2>1. ASSUME NEW h \in unsent, h < j PROVE h < i
    BY <1>1, <2>1
  <2> QED
    BY <2>1
<1>4. /\ Cardinality(before(j)) \in Nat /\ Cardinality(before(i)) \in Nat
      /\ Cardinality(before(j)) <= Cardinality(before(i))
  BY <1>2, <1>3, FS_Subset, FS_CardinalityType
<1>5. page(j) <= page(i) /\ page(j) \in Int /\ page(i) \in Int
  BY <1>4, DivMonotonic, DeliveryAssumption
<1>6. \A k \in unsent \ Unacceptable : page(i) <= page(k)
  BY DEF Batch
<1>7. \A k \in unsent \ Unacceptable : page(k) \in Int
  <2> TAKE k \in unsent \ Unacceptable
  <2>1. before(k) \subseteq unsent
    OBVIOUS
  <2>2. Cardinality(before(k)) \in Nat
    BY <1>2, <2>1, FS_Subset, FS_CardinalityType
  <2> QED
    BY <2>2, DeliveryAssumption
<1>8. \A k \in unsent \ Unacceptable : page(j) <= page(k)
  <2> HIDE DEF page
  <2> QED
    BY <1>5, <1>6, <1>7
<1> QED
  BY <1>8 DEF Batch

LEMMA OnceStep ==
    ASSUME ~MayQueue, TypeOK, TypeOK', AnswerInv, OnceInv, [Next]_vars
    PROVE  OnceInv'
<1> USE DEF settings, services
<1>1. CASE RecordListen
  <2>1. /\ recorded' = recorded + 1 /\ UNCHANGED <<request, accepted, unanswered>>
        /\ \A e \in Destinations, i \in Listens :
             /\ i # recorded + 1 => delivery'[e][i] = delivery[e][i]
             /\ i = recorded + 1 => delivery'[e][i] \in {delivery[e][i], "pending"}
    BY <1>1 DEF RecordListen, TypeOK, Rows
  <2>2. recorded \in Nat /\ Listens \subseteq Nat
    BY DeliveryAssumption DEF TypeOK, Listens
  <2>3. \A e \in Destinations, i \in Listens : i = recorded + 1 =>
          /\ delivery[e][i] = "none" /\ i \notin request[e].ids
          /\ ~(accepted[e][i] > 0) \/ i \in unanswered[e]
    BY <2>2 DEF OnceInv
  <2>4. \A i \in Listens : i > recorded' => i > recorded /\ i # recorded + 1
    BY <2>1, <2>2
  <2>5. ASSUME NEW e \in Destinations, NEW i \in Listens
        PROVE  /\ (i > recorded => delivery[e][i] = "none")'
               /\ (i \in request[e].ids => delivery[e][i] # "none")'
               /\ (accepted[e][i] > 0 /\ i \notin unanswered[e] =>
                     \/ delivery[e][i] = "sent"
                     \/ i \in request[e].ids /\ request[e].answer = "ok")'
               /\ (i \in request[e].ids /\ request[e].answer = "none" =>
                     accepted[e][i] = 0 \/ i \in unanswered[e])'
    <3>1. CASE i = recorded + 1
      BY <2>1, <2>3, <2>4, <3>1
    <3>2. CASE i # recorded + 1
      BY <2>1, <2>4, <3>2 DEF OnceInv
    <3> QED
      BY <3>1, <3>2
  <2> QED
    BY <2>5 DEF OnceInv
<1>2. CASE Crash
  <2>1. /\ UNCHANGED <<recorded, delivery, accepted>>
        /\ \A e \in Destinations : request'[e] = NoRequest
        /\ \A e \in Destinations, i \in Listens :
             i \in unanswered'[e] <=>
               i \in unanswered[e] \/ (request[e].answer = "ok" /\ i \in request[e].ids)
    BY <1>2 DEF Crash
  <2> QED
    BY <2>1, ConstantsOK DEF OnceInv
<1>3. ASSUME NEW d \in Destinations, NEW a \in Answers, Answer(d, a) PROVE OnceInv'
  <2> SUFFICES ASSUME NEW e \in Destinations, NEW i \in Listens
               PROVE  /\ (i > recorded => delivery[e][i] = "none")'
                      /\ (i \in request[e].ids => delivery[e][i] # "none")'
                      /\ (accepted[e][i] > 0 /\ i \notin unanswered[e] =>
                            \/ delivery[e][i] = "sent"
                            \/ i \in request[e].ids /\ request[e].answer = "ok")'
                      /\ (i \in request[e].ids /\ request[e].answer = "none" =>
                            accepted[e][i] = 0 \/ i \in unanswered[e])'
    BY DEF OnceInv
  <2>1. UNCHANGED <<recorded, delivery>> /\ request'[e].ids = request[e].ids
        /\ accepted[e][i] \in 0 .. 2
    BY <1>3, ServiceEffect
  <2>2. CASE e # d \/ i \notin request[d].ids
    <3>1. accepted'[e][i] = accepted[e][i] /\ (i \in unanswered'[e] <=> i \in unanswered[e])
      <4>1. unanswered'[e] \in {unanswered[e], unanswered[e] \union request[d].ids}
            /\ (e # d => unanswered'[e] = unanswered[e])
        <5>1. \/ unanswered' = unanswered
              \/ unanswered' = [unanswered EXCEPT ![d] = @ \union request[d].ids]
          BY <1>3, ServiceEffect
        <5> QED
          BY <5>1 DEF TypeOK
      <4>2. accepted'[e][i] = accepted[e][i]
        BY <1>3, <2>2, ServiceEffect
      <4> QED
        BY <2>2, <4>1, <4>2
    <3> QED
      BY <1>3, <2>1, <2>2, <3>1, ServiceEffect DEF OnceInv
  <2>3. CASE e = d /\ i \in request[d].ids
    <3>1. CASE a \in {"ok", "lost"}
      <4>1. request'[d].answer = a /\ (a = "lost" => i \in unanswered'[d])
        BY <1>3, <2>3, <3>1, ServiceEffect DEF TypeOK
      <4> QED
        BY <2>1, <2>3, <3>1, <4>1 DEF OnceInv
    <3>2. CASE a \notin {"ok", "lost"}
      <4>1. accepted'[e][i] = accepted[e][i] /\ unanswered' = unanswered
            /\ request[d].answer = "none"
        BY <1>3, <2>3, <3>2, ServiceEffect
      <4> QED
        BY <2>1, <2>3, <4>1 DEF OnceInv
    <3> QED
      BY <3>1, <3>2
  <2> QED
    BY <2>2, <2>3
<1>4. ASSUME NEW d \in Destinations, HandleMail(d) \/ RetryTimeout(d) PROVE OnceInv'
  <2>1. UNCHANGED <<recorded, accepted, unanswered>>
    BY <1>4, PokeEffect
  <2>2. PICK s \in Scrobblers : Uploading(d, s, delivery, FALSE)
    BY <1>4, PokeEffect
  <2>3. \A e \in Destinations : e # d => request'[e] = request[e] /\ delivery'[e] = delivery[e]
    BY <2>2 DEF Uploading
  <2>4. \A i \in Listens : (delivery'[d][i] = "none" <=> delivery[d][i] = "none")
                           /\ (delivery[d][i] = "sent" => delivery'[d][i] = "sent")
    BY <2>2 DEF Uploading
  <2>5. CASE request'[d] = request[d]
    BY <2>1, <2>3, <2>4, <2>5 DEF OnceInv
  <2>6. CASE request'[d] # request[d]
    <3>1. /\ request[d] = NoRequest
          /\ \A i \in request'[d].ids : delivery'[d][i] = "pending"
          /\ request'[d].answer = "none"
      BY <2>2, <2>6, ConstantsOK DEF Uploading
    <3>2. \A i \in request'[d].ids : i \in Listens /\ delivery[d][i] = "pending"
      <4>1. request'[d].ids \subseteq Listens
        BY DEF TypeOK, Requests
      <4> QED
        BY <2>2, <3>1, <4>1 DEF Uploading
    <3>3. \A i \in Listens : accepted[d][i] \in 0 .. 2
      BY DEF TypeOK
    <3> QED
      BY <2>1, <2>3, <2>4, <3>1, <3>2, <3>3, ConstantsOK DEF OnceInv
  <2> QED
    BY <2>5, <2>6
<1>5. ASSUME NEW d \in Destinations, HandleAnswer(d), request[d].answer = "ok" PROVE OnceInv'
  <2> DEFINE rows == MarkSent(d, request[d].ids, delivery)
  <2>1. /\ UNCHANGED <<recorded, accepted, unanswered>>
        /\ Uploading(d, Recovered(d), rows, TRUE)
    BY <1>5, AnswerEffect
  <2>2. \A e \in Destinations, i \in Listens :
          /\ rows[e][i] = IF e = d /\ i \in request[d].ids /\ delivery[d][i] # "none"
                          THEN "sent" ELSE delivery[e][i]
    BY MarkSentOK
  <2> HIDE DEF rows
  <2>3. \A e \in Destinations :
          e # d => request'[e] = request[e]
                   /\ \A i \in Listens : delivery'[e][i] = delivery[e][i]
    BY <2>1, <2>2 DEF Uploading
  <2>4. \A i \in Listens :
          /\ delivery'[d][i] = "none" <=> delivery[d][i] = "none"
          /\ delivery[d][i] = "sent" => delivery'[d][i] = "sent"
          /\ i \in request[d].ids /\ delivery[d][i] # "none" => delivery'[d][i] = "sent"
    BY <2>1, <2>2 DEF Uploading
  <2>5. /\ request'[d].answer = "none"
        /\ \A i \in request'[d].ids : i \in Listens /\ delivery'[d][i] = "pending"
    <3>1. request'[d].ids \subseteq Listens
      BY DEF TypeOK, Requests
    <3> QED
      BY <2>1, <3>1, ConstantsOK DEF Uploading
  <2>6. \A i \in Listens : accepted[d][i] \in 0 .. 2
    BY DEF TypeOK
  <2> QED
    BY <2>1, <2>3, <2>4, <2>5, <2>6 DEF OnceInv
<1>6. ASSUME NEW d \in Destinations, HandleAnswer(d), request[d].answer # "ok" PROVE OnceInv'
  <2>1. /\ UNCHANGED <<recorded, accepted, unanswered>>
        /\ \A e \in Destinations :
             request'[e] = IF e = d THEN NoRequest ELSE request[e]
        /\ delivery' \in {delivery, MarkSent(d, request[d].ids, delivery)}
    <3>1. /\ UNCHANGED <<recorded, accepted, unanswered>>
          /\ request' = [request EXCEPT ![d] = NoRequest]
          /\ delivery' = delivery \/ delivery' = MarkSent(d, request[d].ids, delivery)
      BY <1>6, AnswerEffect
    <3> QED
      BY <3>1 DEF TypeOK
  <2>2. \A e \in Destinations, i \in Listens :
          /\ delivery'[e][i] = "none" <=> delivery[e][i] = "none"
          /\ delivery[e][i] = "sent" => delivery'[e][i] = "sent"
    BY <2>1, MarkSentOK
  <2> QED
    BY <1>6, <2>1, <2>2, ConstantsOK DEF OnceInv
<1>7. CASE UNCHANGED <<recorded, delivery, request, accepted, unanswered>>
  BY <1>7 DEF OnceInv
<1> QED
  BY <1>1, <1>2, <1>3, <1>4, <1>5, <1>6, <1>7
     DEF Next, vars, User, Service, SetOffline, EditDestination, RetryPending, ClearPending,
         MarkOwed, HandleNotice, HandlePlayingNow, SubmitPlayingNow, WindowEnds

LEMMA OrderStep ==
    ASSUME ~MayQueue, TypeOK, TypeOK', OnceInv, OrderInv, [Next]_vars
    PROVE  OrderInv'
<1> USE DEF settings, services
<1>1. Listens \subseteq Nat /\ recorded \in Nat
  BY DeliveryAssumption DEF TypeOK, Listens
<1>2. CASE RecordListen
  <2>1. /\ UNCHANGED request
        /\ \A e \in Destinations, i \in Listens :
             i # recorded + 1 => delivery'[e][i] = delivery[e][i]
    BY <1>2 DEF RecordListen, TypeOK, Rows
  <2>2. \A e \in Destinations, i \in Listens : i \in request[e].ids => ~(i > recorded)
    BY DEF OnceInv
  <2>3. \A e \in Destinations, i, j \in Listens :
          i \in request[e].ids /\ j < i => j # recorded + 1
    <3> SUFFICES ASSUME NEW e \in Destinations, NEW i \in Listens, NEW j \in Listens,
                        i \in request[e].ids, j < i
                 PROVE  j # recorded + 1
      OBVIOUS
    <3>1. i \in Nat /\ j \in Nat /\ ~(i > recorded)
      BY <1>1, <2>2
    <3> QED
      BY <1>1, <3>1
  <2> QED
    BY <2>1, <2>3 DEF OrderInv
<1>3. CASE Crash
  BY <1>3, ConstantsOK DEF Crash, OrderInv
<1>4. ASSUME NEW d \in Destinations, NEW a \in Answers, Answer(d, a) PROVE OrderInv'
  BY <1>4, ServiceEffect DEF OrderInv
<1>5. ASSUME NEW d \in Destinations, NEW s, NEW rows \in Rows, NEW free \in BOOLEAN,
             Uploading(d, s, rows, free),
             \A e \in Destinations, i \in Listens :
                rows[e][i] = "pending" => delivery[e][i] = "pending"
      PROVE  OrderInv'
  <2>1. \A e \in Destinations, i \in Listens :
          delivery'[e][i] = "pending" => rows[e][i] = "pending" /\ delivery[e][i] = "pending"
    BY <1>5 DEF Uploading
  <2>2. \A e \in Destinations : e # d => request'[e] = request[e]
    BY <1>5 DEF Uploading
  <2> SUFFICES ASSUME NEW i \in Listens, NEW j \in Listens, request'[d].answer = "none",
                      i \in request'[d].ids, j < i, delivery'[d][j] = "pending",
                      j \notin Unacceptable
               PROVE  j \in request'[d].ids
    BY <2>1, <2>2 DEF OrderInv
  <2>3. CASE request'[d] = request[d]
    BY <2>1, <2>3 DEF OrderInv
  <2>4. CASE request'[d] = [ids |-> Batch(Pending(d, rows)),
                            token |-> s.config.token, answer |-> "none"]
    <3>1. request'[d].ids = Batch(Pending(d, rows))
      BY <2>4
    <3>2. j \in Pending(d, rows) /\ Pending(d, rows) \in SUBSET Listens
      BY <2>1 DEF Pending
    <3> QED
      BY <3>1, <3>2, BatchInOrder
  <2> QED
    BY <1>5, <2>3, <2>4, ConstantsOK DEF Uploading
<1>6. ASSUME NEW d \in Destinations, HandleMail(d) \/ RetryTimeout(d) PROVE OrderInv'
  <2>1. PICK s \in Scrobblers : Uploading(d, s, delivery, FALSE)
    BY <1>6, PokeEffect
  <2>2. delivery \in Rows /\ FALSE \in BOOLEAN
    BY DEF TypeOK
  <2> QED
    BY <1>5, <2>1, <2>2, Zenon
<1>7. ASSUME NEW d \in Destinations, HandleAnswer(d), request[d].answer = "ok"
      PROVE  OrderInv'
  <2> DEFINE rows == MarkSent(d, request[d].ids, delivery)
  <2>1. Uploading(d, Recovered(d), rows, TRUE) /\ TRUE \in BOOLEAN
    BY <1>7, AnswerEffect
  <2>2. rows \in Rows
    BY DEF MarkSent, TypeOK, Rows
  <2>3. \A e \in Destinations, i \in Listens :
          rows[e][i] = "pending" => delivery[e][i] = "pending"
    BY MarkSentOK
  <2> HIDE DEF rows
  <2> QED
    BY <1>5, <2>1, <2>2, <2>3, Zenon
<1>8. ASSUME NEW d \in Destinations, HandleAnswer(d), request[d].answer # "ok"
      PROVE  OrderInv'
  <2>1. /\ request' = [request EXCEPT ![d] = NoRequest]
        /\ delivery' = delivery \/ delivery' = MarkSent(d, request[d].ids, delivery)
    BY <1>8, AnswerEffect
  <2>2. \A e \in Destinations : request'[e] = IF e = d THEN NoRequest ELSE request[e]
    BY <2>1 DEF TypeOK
  <2>3. \A e \in Destinations, i \in Listens :
          delivery'[e][i] = "pending" => delivery[e][i] = "pending"
    BY <2>1, MarkSentOK
  <2> QED
    BY <2>2, <2>3, ConstantsOK DEF OrderInv
<1>9. CASE UNCHANGED <<delivery, request>>
  BY <1>9 DEF OrderInv
<1> QED
  BY <1>2, <1>3, <1>4, <1>6, <1>7, <1>8, <1>9
     DEF Next, vars, User, Service, SetOffline, EditDestination, RetryPending, ClearPending,
         MarkOwed, HandleNotice, HandlePlayingNow, SubmitPlayingNow, WindowEnds

\* Of a listen taken twice, an answer was lost: kept by every step with OnceInv.
LEMMA RepeatStep ==
    ASSUME TypeOK, OnceInv, OnlyUnansweredRepeated, [Next]_vars
    PROVE  OnlyUnansweredRepeated'
<1> USE DEF settings, services
<1>1. CASE Crash
  BY <1>1 DEF Crash, OnlyUnansweredRepeated
<1>2. ASSUME NEW d \in Destinations, NEW a \in Answers, Answer(d, a)
      PROVE  OnlyUnansweredRepeated'
  <2> SUFFICES ASSUME NEW e \in Destinations, NEW i \in Listens, accepted'[e][i] > 1
               PROVE  i \in unanswered'[e]
    BY DEF OnlyUnansweredRepeated
  <2>1. i \in unanswered[e]
    <3>1. CASE accepted[e][i] > 1
      BY <3>1 DEF OnlyUnansweredRepeated
    <3>2. CASE ~(accepted[e][i] > 1)
      <4>1. e = d /\ i \in request[d].ids /\ accepted[e][i] # 0 /\ request[d].answer = "none"
        BY <1>2, <3>2, ServiceEffect
      <4> QED
        BY <4>1 DEF OnceInv
    <3> QED
      BY <3>1, <3>2
  <2>2. \/ unanswered' = unanswered
        \/ unanswered' = [unanswered EXCEPT ![d] = @ \union request[d].ids]
    BY <1>2, ServiceEffect
  <2>3. unanswered'[e] \in {unanswered[e], unanswered[e] \union request[d].ids}
    BY <2>2 DEF TypeOK
  <2> QED
    BY <2>1, <2>3
<1>3. CASE UNCHANGED <<accepted, unanswered>>
  BY <1>3 DEF OnlyUnansweredRepeated
<1>4. ASSUME NEW d \in Destinations, HandleMail(d) \/ RetryTimeout(d)
      PROVE  UNCHANGED <<accepted, unanswered>>
  BY <1>4, PokeEffect
<1>5. ASSUME NEW d \in Destinations, HandleAnswer(d)
      PROVE  UNCHANGED <<accepted, unanswered>>
  BY <1>5, AnswerEffect
<1> QED
  BY <1>1, <1>2, <1>3, <1>4, <1>5
     DEF Next, vars, User, Service, RecordListen, SetOffline, EditDestination, RetryPending,
         ClearPending, MarkOwed, HandleNotice, HandlePlayingNow, SubmitPlayingNow, WindowEnds

----------------------------------------------------------------------------

QueueInv == TypeInv /\ AnswerInv /\ SentMeansDelivered /\ OnceInv /\ OrderInv
              /\ OnlyUnansweredRepeated

LEMMA QueueInvInit == Init => QueueInv
<1>1. Init => AnswerInv /\ SentMeansDelivered /\ OrderInv /\ OnlyUnansweredRepeated
  BY ConstantsOK DEF Init, AnswerInv, SentMeansDelivered, OrderInv, OnlyUnansweredRepeated
<1>2. Init => OnceInv
  BY ConstantsOK DEF Init, OnceInv
<1> QED
  BY <1>1, <1>2, TypeInit DEF QueueInv

LEMMA QueueInvStep == ASSUME ~MayQueue PROVE QueueInv /\ [Next]_vars => QueueInv'
BY TypeStep, DeliveryStep, OnceStep, OrderStep, RepeatStep DEF QueueInv, TypeInv

\* While the user queues no rows himself, the only listens a service takes twice are
\* those whose first answer never arrived: no crossing of timers, calls, edits, answers
\* and restarts submits one again.
THEOREM RepeatedOnlyIfUnanswered ==
    ASSUME ~MayQueue PROVE Spec => []OnlyUnansweredRepeated
<1>1. QueueInv => OnlyUnansweredRepeated
  BY DEF QueueInv
<1> QED
  BY <1>1, QueueInvInit, QueueInvStep, PTL DEF Spec

\* And no listen reaches a service for the first time before an older one still owed.
THEOREM InOrder ==
    ASSUME ~MayQueue PROVE Spec => DeliveredInOrder
<1> DEFINE A == \A d \in Destinations, i, j \in Listens :
                   /\ accepted[d][i] = 0 /\ accepted'[d][i] > 0
                   /\ j < i /\ delivery[d][j] = "pending" /\ j \notin Unacceptable
                   => accepted'[d][j] > 0
<1>1. QueueInv /\ [Next]_vars => [A]_vars
  <2> SUFFICES ASSUME TypeOK, OrderInv, [Next]_vars,
                      NEW e \in Destinations, NEW i \in Listens, NEW j \in Listens,
                      accepted[e][i] = 0, accepted'[e][i] > 0, j < i,
                      delivery[e][j] = "pending", j \notin Unacceptable
               PROVE  accepted'[e][j] > 0
    BY DEF QueueInv, TypeInv
  <2> USE DEF settings, services
  <2>1. ASSUME NEW d \in Destinations, NEW a \in Answers, Answer(d, a)
        PROVE  accepted'[e][j] > 0
    <3>1. a \in {"ok", "lost"} /\ e = d /\ i \in request[d].ids /\ request[d].answer = "none"
      BY <2>1, ServiceEffect
    <3>2. j \in request[d].ids
      BY <3>1 DEF OrderInv
    <3> QED
      BY <2>1, <3>1, <3>2, ServiceEffect
  <2>2. CASE UNCHANGED accepted
    BY <2>2
  <2>3. ASSUME NEW d \in Destinations, HandleMail(d) \/ RetryTimeout(d) \/ HandleAnswer(d)
        PROVE  UNCHANGED accepted
    BY <2>3, PokeEffect, AnswerEffect
  <2> QED
    BY <2>1, <2>2, <2>3
       DEF Next, vars, User, Service, RecordListen, SetOffline, Crash, EditDestination,
           RetryPending, ClearPending, MarkOwed, HandleNotice, HandlePlayingNow,
           SubmitPlayingNow, WindowEnds
<1>2. Spec => [][A]_vars
  <2> HIDE DEF A
  <2> QED
    BY <1>1, QueueInvInit, QueueInvStep, PTL DEF Spec
<1> QED
  BY <1>2 DEF DeliveredInOrder

----------------------------------------------------------------------------
(* What disables a destination. *)

LEMMA RefusedStep ==
    ASSUME "invalid" \notin Failures, TypeOK, RefusedInv, OutageKeepsCollecting, [Next]_vars
    PROVE  RefusedInv' /\ OutageKeepsCollecting'
<1> USE DEF settings, services
<1>1. CASE Crash
  BY <1>1, ConstantsOK DEF Crash, RefusedInv, OutageKeepsCollecting
<1>2. ASSUME NEW d \in Destinations, HandleNotice(d)
      PROVE  RefusedInv' /\ OutageKeepsCollecting'
  <2>1. \A e \in Destinations : notices'[e] > 0 => notices[e] > 0
    BY <1>2 DEF HandleNotice, TypeOK
  <2> QED
    BY <1>2, <2>1 DEF HandleNotice, RefusedInv, OutageKeepsCollecting
<1>3. ASSUME NEW d \in Destinations, NEW a \in Answers, Answer(d, a)
      PROVE  RefusedInv' /\ OutageKeepsCollecting'
  <2>1. /\ a # "invalid" /\ request[d] # NoRequest
        /\ request' = [request EXCEPT ![d].answer = a] /\ UNCHANGED notices
        /\ refused' = IF a = "refused" THEN [refused EXCEPT ![d] = request[d].token]
                      ELSE refused
    BY <1>3 DEF Answer
  <2>2. request[d].token # NoToken
    BY <2>1 DEF RefusedInv
  <2>3. /\ request'[d].answer = a /\ request'[d].token = request[d].token
        /\ \A e \in Destinations : e # d => request'[e] = request[e]
    BY <2>1 DEF TypeOK, Requests
  <2>4. /\ a = "refused" => refused'[d] # NoToken
        /\ \A e \in Destinations : refused[e] # NoToken => refused'[e] # NoToken
    BY <2>1, <2>2 DEF TypeOK
  <2> QED
    BY <2>1, <2>2, <2>3, <2>4 DEF RefusedInv, OutageKeepsCollecting
<1>4. ASSUME NEW d \in Destinations, NEW s \in Scrobblers, NEW rows, NEW free,
             Uploading(d, s, rows, free)
      PROVE  /\ request'[d].answer # "invalid"
             /\ request'[d] # NoRequest => request'[d].token # NoToken
             /\ request'[d].answer = "refused" => refused[d] # NoToken
             /\ \A e \in Destinations : e # d => request'[e] = request[e]
  <2>1. s.config.token \in Tokens /\ NoToken \notin Tokens
    BY DeliveryAssumption DEF Scrobblers, Configuration
  <2>2. CASE request'[d] = NoRequest
    BY <1>4, <2>2, ConstantsOK DEF Uploading
  <2>3. CASE request'[d] = request[d]
    BY <1>4, <2>3 DEF Uploading, RefusedInv
  <2>4. CASE request'[d] = [ids |-> Batch(Pending(d, rows)),
                            token |-> s.config.token, answer |-> "none"]
    BY <1>4, <2>1, <2>4 DEF Uploading
  <2> QED
    BY <1>4, <2>2, <2>3, <2>4 DEF Uploading
<1>5. ASSUME NEW d \in Destinations, HandleMail(d) \/ RetryTimeout(d)
      PROVE  RefusedInv' /\ OutageKeepsCollecting'
  <2>1. PICK s \in Scrobblers : Uploading(d, s, delivery, FALSE)
    BY <1>5, PokeEffect
  <2>2. UNCHANGED <<notices, refused>>
    BY <1>5, PokeEffect
  <2>3. /\ request'[d].answer # "invalid"
        /\ request'[d] # NoRequest => request'[d].token # NoToken
        /\ request'[d].answer = "refused" => refused[d] # NoToken
        /\ \A e \in Destinations : e # d => request'[e] = request[e]
    BY <1>4, <2>1, Zenon
  <2> QED
    BY <2>2, <2>3 DEF RefusedInv, OutageKeepsCollecting
<1>6. ASSUME NEW d \in Destinations, HandleAnswer(d)
      PROVE  RefusedInv' /\ OutageKeepsCollecting'
  <2>1. /\ UNCHANGED refused
        /\ request[d].answer # "refused" => notices' = notices
        /\ \A e \in Destinations : e # d => notices'[e] = notices[e]
    <3>1. request[d].answer # "invalid"
      BY DEF RefusedInv
    <3>2. notices' = notices \/ notices' = [notices EXCEPT ![d] = @ + 1]
      BY <1>6 DEF HandleAnswer, Disable
    <3>3. request[d].answer # "refused" => notices' = notices
      BY <1>6, <3>1 DEF HandleAnswer, Counts
    <3> QED
      BY <1>6, <3>2, <3>3 DEF HandleAnswer, TypeOK
  <2>2. OutageKeepsCollecting'
    BY <2>1 DEF RefusedInv, OutageKeepsCollecting
  <2>3. RefusedInv'
    <3>1. CASE request[d].answer = "ok"
      <4>1. Recovered(d) \in Scrobblers
            /\ Uploading(d, Recovered(d), MarkSent(d, request[d].ids, delivery), TRUE)
        BY <1>6, <3>1, ScrobblerOK, AnswerEffect
      <4>2. /\ request'[d].answer # "invalid"
            /\ request'[d] # NoRequest => request'[d].token # NoToken
            /\ request'[d].answer = "refused" => refused[d] # NoToken
            /\ \A e \in Destinations : e # d => request'[e] = request[e]
        BY <1>4, <4>1, Zenon
      <4> QED
        BY <2>1, <4>2 DEF RefusedInv
    <3>2. CASE request[d].answer # "ok"
      <4>1. request' = [request EXCEPT ![d] = NoRequest]
        BY <1>6, <3>2, AnswerEffect
      <4>2. \A e \in Destinations : request'[e] = IF e = d THEN NoRequest ELSE request[e]
        BY <4>1 DEF TypeOK
      <4> QED
        BY <2>1, <4>2, ConstantsOK DEF RefusedInv
    <3> QED
      BY <3>1, <3>2
  <2> QED
    BY <2>2, <2>3
<1>7. ASSUME NEW d \in Destinations, HandlePlayingNow(d)
      PROVE  RefusedInv' /\ OutageKeepsCollecting'
  <2>1. /\ UNCHANGED request /\ ping[d] # NoToken
        /\ \/ UNCHANGED <<notices, refused>>
           \/ /\ refused' = [refused EXCEPT ![d] = ping[d]]
              /\ notices' = [notices EXCEPT ![d] = @ + 1]
    BY <1>7 DEF HandlePlayingNow, Disable
  <2>2. CASE UNCHANGED <<notices, refused>>
    BY <2>1, <2>2 DEF RefusedInv, OutageKeepsCollecting
  <2>3. CASE /\ refused' = [refused EXCEPT ![d] = ping[d]]
             /\ notices' = [notices EXCEPT ![d] = @ + 1]
    <3>1. /\ refused'[d] # NoToken
          /\ \A e \in Destinations : e # d => refused'[e] = refused[e] /\ notices'[e] = notices[e]
      BY <2>1, <2>3 DEF TypeOK
    <3> QED
      BY <2>1, <3>1 DEF RefusedInv, OutageKeepsCollecting
  <2> QED
    BY <2>1, <2>2, <2>3
<1>8. CASE UNCHANGED <<notices, request, refused>>
  BY <1>8 DEF RefusedInv, OutageKeepsCollecting
<1> QED
  BY <1>1, <1>2, <1>3, <1>5, <1>6, <1>7, <1>8
     DEF Next, vars, User, Service, RecordListen, SetOffline, EditDestination, RetryPending,
         ClearPending, MarkOwed, SubmitPlayingNow, WindowEnds

\* Outages, server errors and rate limits disable no destination: as long as a service
\* rejects no submission as such, only a token it refused does.
THEOREM OutageDisablesNothing ==
    ASSUME "invalid" \notin Failures PROVE Spec => []OutageKeepsCollecting
<1> DEFINE Inv == TypeInv /\ RefusedInv /\ OutageKeepsCollecting
<1>1. Init => Inv
  <2>1. Init => RefusedInv /\ OutageKeepsCollecting
    BY ConstantsOK DEF Init, RefusedInv, OutageKeepsCollecting
  <2> QED
    BY <2>1, TypeInit
<1>2. Inv /\ [Next]_vars => Inv'
  BY TypeStep, RefusedStep DEF TypeInv
<1> QED
  BY <1>1, <1>2, PTL DEF Spec

=============================================================================
