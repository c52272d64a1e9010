--------------------------- MODULE ScrobbleDelivery ---------------------------
(***************************************************************************)
(* Delivery of the local listen history to the scrobbling destinations.    *)
(*                                                                         *)
(* The GUI thread records listens in the history store and edits the       *)
(* destinations.  Each destination has a scrobbler of its own on a worker  *)
(* thread, told what to do by queued calls, with at most one submission in *)
(* flight.  The store is shared: a delivery row per listen and destination.*)
(* The service may answer, fail, or take a submission and lose the answer. *)
(* The program may be killed at any moment; rows and settings survive.     *)
(*                                                                         *)
(* Listens are numbered in the order of their timestamps.                  *)
(***************************************************************************)
EXTENDS Integers, FiniteSets, Sequences

CONSTANTS
    Destinations,
    LastFm,         \* those of them that are Last.fm; the others ListenBrainz
    Tokens,
    NoToken,
    GoodTokens,     \* the tokens the services accept
    Unacceptable,   \* listens without the metadata a service requires
    Failures,       \* how a service may fail a submission with a good token
    MayQueue,       \* the user clears backlogs and queues history rows
    MayEdit,        \* the user edits destinations
    MayCrash,
    MaxBatch,       \* maxListensPerImport, maxScrobblesPerBatch
    MaxConsecutive, \* maxConsecutiveSubmissionFailures
    MaxListens,     \* bound on the listens recorded
    MaxFaults,      \* bound on failures and crashes together
    MaxMail         \* bound on the calls queued to a scrobbler, and the signals from it

Listens == 1 .. MaxListens

ASSUME DeliveryAssumption ==
    /\ LastFm \subseteq Destinations
    /\ GoodTokens \subseteq Tokens /\ NoToken \notin Tokens
    /\ Unacceptable \subseteq Nat
    /\ Failures \subseteq {"later", "lost", "limited", "invalid"}
    /\ MayQueue \in BOOLEAN /\ MayEdit \in BOOLEAN /\ MayCrash \in BOOLEAN
    /\ MaxBatch \in Nat \ {0} /\ MaxConsecutive \in Nat \ {0}
    /\ MaxListens \in Nat /\ MaxFaults \in Nat /\ MaxMail \in Nat \ {0}

VARIABLES
    recorded,       \* how many listens were recorded
    delivery,       \* listen_deliveries: "none", "pending" or "sent"
    enabled, token, \* the destination's settings
    online,
    scrobbler,      \* what each scrobbler was configured with, and its timer
    mail,           \* calls queued to its thread
    notices,        \* disabledAfterFailures signals queued to the GUI thread
    request,        \* the submission in flight
    ping,           \* the token of a playing-now update in flight
    \* the services
    accepted,       \* how often each listen was accepted, counted up to twice
    unanswered,     \* the accepted listens whose answer never reached the scrobbler
    dropped,        \* the listens Last.fm refused for good
    window,         \* within the window of a rate limit
    refused,        \* the token refused last
    faults

settings == <<enabled, token, online>>
services == <<accepted, unanswered, dropped, window, refused>>
vars == <<recorded, delivery, settings, scrobbler, mail, notices, request, ping,
          services, faults>>

Configuration == [enabled : BOOLEAN, allowed : BOOLEAN, token : Tokens]
Answers == {"none", "ok", "refused", "later", "lost", "limited", "invalid"}
NoRequest == [ids |-> {}, token |-> NoToken, answer |-> "none"]

Rows == [Destinations -> [Listens -> {"none", "pending", "sent"}]]
Scrobblers == [config : Configuration, failures : 0 .. MaxConsecutive, running : BOOLEAN,
               interval : {"minute", "window"}]
Calls == [call : {"configure", "uploadBacklog"}, config : Configuration]
Requests == [ids : SUBSET Listens, token : Tokens \union {NoToken}, answer : Answers]

TypeOK ==
    /\ recorded \in 0 .. MaxListens
    /\ delivery \in Rows
    /\ enabled \in [Destinations -> BOOLEAN] /\ token \in [Destinations -> Tokens]
    /\ online \in BOOLEAN
    /\ scrobbler \in [Destinations -> Scrobblers]
    /\ mail \in [Destinations -> Seq(Calls)]
    /\ notices \in [Destinations -> Nat]
    /\ request \in [Destinations -> Requests]
    /\ ping \in [Destinations -> Tokens \union {NoToken}]
    /\ accepted \in [Destinations -> [Listens -> 0 .. 2]]
    /\ unanswered \in [Destinations -> SUBSET Listens]
    /\ dropped \in [Destinations -> SUBSET Listens]
    /\ window \in [Destinations -> BOOLEAN]
    /\ refused \in [Destinations -> Tokens \union {NoToken}]
    /\ faults \in 0 .. MaxFaults

\* What the constructor and the first configure() call queued at startup leave.
Idle(d) == [config |-> [enabled |-> FALSE, allowed |-> FALSE, token |-> token[d]],
            failures |-> 0, running |-> FALSE, interval |-> "minute"]
Saved(d) == [enabled |-> enabled[d], allowed |-> online, token |-> token[d]]
Configuring(c) == [call |-> "configure", config |-> c]

Init ==
    /\ recorded = 0
    /\ delivery = [d \in Destinations |-> [i \in Listens |-> "none"]]
    /\ enabled = [d \in Destinations |-> TRUE]
    /\ token \in [Destinations -> Tokens]
    /\ online = TRUE
    /\ scrobbler = [d \in Destinations |-> Idle(d)]
    /\ mail = [d \in Destinations |-> <<Configuring(Saved(d))>>]
    /\ notices = [d \in Destinations |-> 0]
    /\ request = [d \in Destinations |-> NoRequest]
    /\ ping = [d \in Destinations |-> NoToken]
    /\ accepted = [d \in Destinations |-> [i \in Listens |-> 0]]
    /\ unanswered = [d \in Destinations |-> {}]
    /\ dropped = [d \in Destinations |-> {}]
    /\ window = [d \in Destinations |-> FALSE]
    /\ refused = [d \in Destinations |-> NoToken]
    /\ faults = 0

----------------------------------------------------------------------------
(* The backlog. *)

Pending(d, rows) == {i \in Listens : rows[d][i] = "pending"}

MarkSentEverywhere(d, ids, rows) ==
    [e \in Destinations |->
        [i \in Listens |-> IF i \in ids /\ rows[e][i] # "none" THEN "sent" ELSE rows[e][i]]]

\* markSent(): an UPDATE, so a row deleted meanwhile does not come back.
MarkSent(d, ids, rows) ==
    [rows EXCEPT ![d] = [i \in Listens |->
        IF i \in ids /\ rows[d][i] # "none" THEN "sent" ELSE rows[d][i]]]

SkipNone(unsent) == {}

\* Rows no service would accept: marked sent by uploadBacklog().
Skippable(unsent) == unsent \intersect Unacceptable

BatchNewest(unsent) ==
    LET valid == unsent \ Unacceptable
    IN {i \in valid : Cardinality({j \in valid : j >= i}) <= MaxBatch}

\* unsent(): oldest first, up to MaxBatch at a time.  The batch is the first one
\* with a listen that can be submitted.
Batch(unsent) ==
    LET page(i) == Cardinality({j \in unsent : j < i}) \div MaxBatch
        valid   == unsent \ Unacceptable
    IN {i \in valid : \A j \in valid : page(i) <= page(j)}

\* The unacceptable rows uploadBacklog() meets on its way to the batch.
Skipped(unsent) ==
    LET page(i) == Cardinality({j \in unsent : j < i}) \div MaxBatch
    IN {i \in Skippable(unsent) : \A j \in Batch(unsent) : page(i) <= page(j)}

\* The tokens of the model are never empty, nor is the API root.
CanUpload(s) == s.config.enabled /\ s.config.allowed

NotGuarded(d) == TRUE

\* m_listenSubmissionInFlight.
Unoccupied(d) == request[d] = NoRequest

\* uploadBacklog() by scrobbler s of d on the given rows; free when its previous
\* submission has just been answered.
UploadBacklog(d, s, rows, free) ==
    LET unsent == Pending(d, rows)
    IN IF CanUpload(s) /\ (free \/ Unoccupied(d)) /\ unsent # {}
       THEN /\ delivery' = MarkSent(d, Skipped(unsent), rows)
            /\ request' = [request EXCEPT ![d] =
                    IF Batch(unsent) = {} THEN NoRequest
                    ELSE [ids |-> Batch(unsent), token |-> s.config.token, answer |-> "none"]]
       ELSE /\ delivery' = rows
            /\ request' = IF free THEN [request EXCEPT ![d] = NoRequest] ELSE request

----------------------------------------------------------------------------
(* The GUI thread. *)

Post(ds, message) ==
    /\ \A d \in ds : Len(mail[d]) < MaxMail
    /\ mail' = [d \in Destinations |-> IF d \in ds THEN Append(mail[d], message[d]) ELSE mail[d]]

\* The call has no argument.
Upload == [d \in Destinations |-> [call |-> "uploadBacklog", config |-> Saved(d)]]

\* ListenBrainzHub::configure() reaches every compatible destination.
Configured(d) == IF d \in LastFm THEN LastFm ELSE Destinations \ LastFm
SavedNext == [d \in Destinations |-> Configuring(
                [enabled |-> enabled'[d], allowed |-> online', token |-> token'[d]])]

\* listenReached: one row per destination enabled now, in one transaction.
RecordListen ==
    /\ recorded < MaxListens
    /\ recorded' = recorded + 1
    /\ LET owed == {d \in Destinations : enabled[d]}
       IN /\ delivery' = [d \in Destinations |->
                IF d \in owed THEN [delivery[d] EXCEPT ![recorded + 1] = "pending"]
                ELSE delivery[d]]
          /\ Post(owed, Upload)
    /\ UNCHANGED <<settings, scrobbler, notices, request, ping, services, faults>>

\* ScrobblersPanel: saved and applied together.
EditDestination(d) ==
    /\ MayEdit /\ notices[d] < MaxMail
    /\ \/ enabled' = [enabled EXCEPT ![d] = ~@] /\ UNCHANGED token
       \/ \E t \in Tokens : t # token[d] /\ token' = [token EXCEPT ![d] = t] /\ UNCHANGED enabled
    /\ online' = online
    /\ Post(Destinations, SavedNext)
    /\ UNCHANGED <<recorded, delivery, scrobbler, notices, request, ping, services, faults>>

\* setScrobbleOffline().
SetOffline ==
    /\ MayEdit /\ \A d \in Destinations : notices[d] < MaxMail
    /\ online' = ~online
    /\ UNCHANGED <<enabled, token>>
    /\ Post(Destinations, SavedNext)
    /\ UNCHANGED <<recorded, delivery, scrobbler, notices, request, ping, services, faults>>

\* ListeningHistoryPanel::clearBacklogs().
ClearPending(d) ==
    /\ MayQueue /\ Pending(d, delivery) # {}
    /\ delivery' = [delivery EXCEPT ![d] =
            [i \in Listens |-> IF delivery[d][i] = "pending" THEN "none" ELSE delivery[d][i]]]
    /\ UNCHANGED <<recorded, settings, scrobbler, mail, notices, request, ping, services, faults>>

\* ListeningHistoryPanel::queueSelected() and the upload it triggers.
MarkOwed(d, i) ==
    /\ MayQueue /\ i <= recorded /\ delivery[d][i] = "none"
    /\ delivery' = [delivery EXCEPT ![d][i] = "pending"]
    /\ Post({d}, Upload)
    /\ UNCHANGED <<recorded, settings, scrobbler, notices, request, ping, services, faults>>

\* ListeningHistoryPanel::retryPending().
RetryPending(d) ==
    /\ MayQueue /\ Pending(d, delivery) # {}
    /\ Post({d}, Upload)
    /\ UNCHANGED <<recorded, delivery, settings, scrobbler, notices, request, ping,
                   services, faults>>

NotApplied(d) == mail' = mail /\ UNCHANGED online

ApplyConfiguration(d) == UNCHANGED online /\ Post(Configured(d), SavedNext)

\* disabledAfterFailures: the setting is switched off and applied.
HandleNotice(d) ==
    /\ notices[d] > 0
    /\ notices' = [notices EXCEPT ![d] = @ - 1]
    /\ enabled' = [enabled EXCEPT ![d] = FALSE]
    /\ UNCHANGED token
    /\ ApplyConfiguration(d)
    /\ UNCHANGED <<recorded, delivery, scrobbler, request, ping, services, faults>>

----------------------------------------------------------------------------
(* A scrobbler. *)

\* configure(); the interval of the retry timer is kept.
Configure(d, c) ==
    LET s == [scrobbler[d] EXCEPT !.config = c, !.failures = 0,
                                  !.running = c.enabled /\ c.allowed]
    IN /\ scrobbler' = [scrobbler EXCEPT ![d] = s]
       /\ UploadBacklog(d, s, delivery, FALSE)

HandleMail(d) ==
    /\ mail[d] # <<>>
    /\ mail' = [mail EXCEPT ![d] = Tail(@)]
    /\ IF Head(mail[d]).call = "uploadBacklog"
       THEN UploadBacklog(d, scrobbler[d], delivery, FALSE) /\ UNCHANGED scrobbler
       ELSE Configure(d, Head(mail[d]).config)
    /\ UNCHANGED <<recorded, settings, notices, ping, services, faults>>

\* The retry timer; after a rate limit it is set past the end of the window.
RetryTimeout(d) ==
    /\ scrobbler[d].running
    /\ scrobbler[d].interval = "window" => ~window[d]
    /\ UploadBacklog(d, scrobbler[d], delivery, FALSE)
    /\ UNCHANGED <<recorded, settings, scrobbler, mail, notices, ping, services, faults>>

\* disableScrobbling().
Disabled(s) == [s EXCEPT !.config.enabled = FALSE, !.running = FALSE]
Disable(d, s) ==
    /\ scrobbler' = [scrobbler EXCEPT ![d] = Disabled(s)]
    /\ notices' = [notices EXCEPT ![d] = @ + 1]

\* A successful answer: the one-minute interval again.
Recovered(d) ==
    IF d \in LastFm THEN scrobbler[d]
    ELSE [scrobbler[d] EXCEPT !.failures = 0, !.interval = "minute",
             !.running = @ \/ (scrobbler[d].config.enabled /\ scrobbler[d].interval = "window")]
RateLimited(d) == [scrobbler[d] EXCEPT !.interval = "window", !.running = TRUE]

\* Only a submission the service rejected counts towards being disabled.
Counts(answer) == answer = "invalid"

TooMany(failures) == failures >= MaxConsecutive

\* handleSubmissionFinished() and handleScrobbleResponse() of a submission.
HandleAnswer(d) ==
    /\ request[d].answer # "none"
    /\ LET answer == request[d].answer
           ids    == request[d].ids
           done   == request' = [request EXCEPT ![d] = NoRequest]
           failures == scrobbler[d].failures + 1
           counted  == [scrobbler[d] EXCEPT !.failures = failures]
       IN \/ /\ answer = "ok"
             /\ scrobbler' = [scrobbler EXCEPT ![d] = Recovered(d)]
             /\ UploadBacklog(d, Recovered(d), MarkSent(d, ids, delivery), TRUE)
             /\ UNCHANGED <<notices, dropped>>
          \/ /\ answer = "refused"
             /\ done /\ Disable(d, scrobbler[d])
             /\ UNCHANGED <<delivery, dropped>>
          \/ /\ answer = "limited" /\ d \notin LastFm
             /\ done /\ scrobbler' = [scrobbler EXCEPT ![d] = RateLimited(d)]
             /\ UNCHANGED <<delivery, notices, dropped>>
          \/ /\ answer = "invalid" /\ d \in LastFm
             /\ done /\ delivery' = MarkSent(d, ids, delivery)
             /\ dropped' = [dropped EXCEPT ![d] = @ \union ids]
             /\ UNCHANGED <<scrobbler, notices>>
          \/ /\ Counts(answer) /\ answer # "ok" /\ d \notin LastFm
             /\ done
             /\ IF TooMany(failures) THEN Disable(d, counted)
                ELSE scrobbler' = [scrobbler EXCEPT ![d] = counted] /\ UNCHANGED notices
             /\ UNCHANGED <<delivery, dropped>>
          \/ /\ answer \in {"later", "lost"} \union (IF d \in LastFm THEN {"limited"} ELSE {})
             /\ ~(Counts(answer) /\ d \notin LastFm)
             /\ done /\ UNCHANGED <<delivery, scrobbler, notices, dropped>>
    /\ UNCHANGED <<recorded, settings, mail, ping, accepted, unanswered, window, refused,
                   faults>>

\* trackStarted(): a playing-now update, best effort.
SubmitPlayingNow(d) ==
    /\ CanUpload(scrobbler[d]) /\ ping[d] = NoToken
    /\ ping' = [ping EXCEPT ![d] = scrobbler[d].config.token]
    /\ UNCHANGED <<recorded, delivery, settings, scrobbler, mail, notices, request,
                   services, faults>>

\* Its answer; a failure other than these is only reported.
HandlePlayingNow(d) ==
    /\ ping[d] # NoToken
    /\ ping' = [ping EXCEPT ![d] = NoToken]
    /\ \/ /\ ping[d] \in GoodTokens /\ ~window[d]
          /\ scrobbler' = [scrobbler EXCEPT ![d] = Recovered(d)]
          /\ UNCHANGED <<notices, refused>>
       \/ /\ window[d] /\ d \notin LastFm
          /\ scrobbler' = [scrobbler EXCEPT ![d] = RateLimited(d)]
          /\ UNCHANGED <<notices, refused>>
       \/ /\ ping[d] \notin GoodTokens /\ ~window[d]
          /\ Disable(d, scrobbler[d])
          /\ refused' = [refused EXCEPT ![d] = ping[d]]
       \/ UNCHANGED <<scrobbler, notices, refused>>
    /\ UNCHANGED <<recorded, delivery, settings, mail, request, accepted, unanswered, dropped,
                   window, faults>>

----------------------------------------------------------------------------
(* The services, and the end of the program. *)

\* A service takes a submission, or not, and answers it; an answer that is lost,
\* or late, is for the scrobbler a network error.
Answer(d, a) ==
    /\ request[d] # NoRequest /\ request[d].answer = "none"
    /\ \/ a = "refused" /\ request[d].token \notin GoodTokens /\ ~window[d]
       \/ a = "limited" /\ window[d]
       \/ a = "ok" /\ request[d].token \in GoodTokens /\ ~window[d]
       \/ a \in Failures /\ request[d].token \in GoodTokens /\ ~window[d] /\ faults < MaxFaults
    /\ request' = [request EXCEPT ![d].answer = a]
    /\ accepted' = IF a \in {"ok", "lost"}
                   THEN [accepted EXCEPT ![d] =
                            [i \in Listens |-> IF i \in request[d].ids /\ @[i] < 2 THEN @[i] + 1 ELSE @[i]]]
                   ELSE accepted
    /\ unanswered' = IF a = "lost" THEN [unanswered EXCEPT ![d] = @ \union request[d].ids]
                     ELSE unanswered
    /\ window' = [window EXCEPT ![d] = @ \/ a = "limited"]
    /\ refused' = IF a = "refused" THEN [refused EXCEPT ![d] = request[d].token] ELSE refused
    /\ faults' = IF a \in Failures /\ ~window[d] THEN faults + 1 ELSE faults
    /\ UNCHANGED <<recorded, delivery, settings, scrobbler, mail, notices, ping, dropped>>

WindowEnds(d) ==
    /\ window[d]
    /\ window' = [window EXCEPT ![d] = FALSE]
    /\ UNCHANGED <<recorded, delivery, settings, scrobbler, mail, notices, request, ping,
                   accepted, unanswered, dropped, refused, faults>>

\* The program is killed and started again.
Crash ==
    /\ MayCrash /\ faults < MaxFaults
    /\ faults' = faults + 1
    /\ scrobbler' = [d \in Destinations |-> Idle(d)]
    /\ mail' = [d \in Destinations |-> <<Configuring(Saved(d))>>]
    /\ notices' = [d \in Destinations |-> 0]
    /\ request' = [d \in Destinations |-> NoRequest]
    /\ ping' = [d \in Destinations |-> NoToken]
    /\ unanswered' = [d \in Destinations |->
            IF request[d].answer = "ok" THEN unanswered[d] \union request[d].ids
            ELSE unanswered[d]]
    /\ UNCHANGED <<recorded, delivery, settings, accepted, dropped, window, refused>>

----------------------------------------------------------------------------
User(d) == EditDestination(d) \/ ClearPending(d) \/ RetryPending(d) \/ \E i \in Listens : MarkOwed(d, i)
Service(d) == \E a \in Answers : Answer(d, a)

Next ==
    \/ RecordListen \/ SetOffline \/ Crash
    \/ \E d \in Destinations : \/ User(d) \/ HandleNotice(d) \/ Service(d)
                               \/ HandleMail(d) \/ HandleAnswer(d) \/ HandlePlayingNow(d)
                               \/ RetryTimeout(d) \/ SubmitPlayingNow(d) \/ WindowEnds(d)

Spec == Init /\ [][Next]_vars

\* The event loops run, the timers fire, a request is answered or times out after
\* 30 seconds, and a rate limit ends.
FairSpec ==
    /\ Spec
    /\ \A d \in Destinations :
        /\ WF_vars(HandleMail(d)) /\ WF_vars(HandleAnswer(d)) /\ WF_vars(HandleNotice(d))
        /\ WF_vars(RetryTimeout(d))
        /\ WF_vars(Service(d)) /\ WF_vars(WindowEnds(d))

----------------------------------------------------------------------------
(* What the delivery promises. *)

\* A row is marked sent only when its own destination took the listen, could
\* never take it, or refused it for good: no outage, crash, edit or other
\* destination's answer loses a listen.
SentMeansDelivered ==
    \A d \in Destinations, i \in Listens :
        delivery[d][i] = "sent" =>
            accepted[d][i] > 0 \/ i \in Unacceptable \/ i \in dropped[d]

\* "Uploads must be in order" (ListenHistoryStore.h): no listen is taken for the
\* first time while the service is still owed an older one it could take.
DeliveredInOrder ==
    [][ \A d \in Destinations, i, j \in Listens :
            /\ accepted[d][i] = 0 /\ accepted'[d][i] > 0
            /\ j < i /\ delivery[d][j] = "pending" /\ j \notin Unacceptable
            => accepted'[d][j] > 0 ]_vars

\* Only a listen whose answer was lost, to the network or to a crash, is taken
\* again, whatever timers, pokes, edits and drains start an upload.
OnlyUnansweredRepeated ==
    \A d \in Destinations, i \in Listens : accepted[d][i] > 1 => i \in unanswered[d]

\* When no call and no signal is on its way, a scrobbler runs with the saved
\* settings, however edits and failures crossed.
ConfigurationSettles ==
    \A d \in Destinations :
        mail[d] = <<>> /\ notices[d] = 0 => scrobbler[d].config = Saved(d)

\* An outage, a server's failure or a rate limit never disables a destination
\* (docs/data-safety.md), as long as the service rejects no submission.
OutageKeepsCollecting ==
    \A d \in Destinations :
        notices[d] > 0 => refused[d] # NoToken

\* What is owed is delivered in the end, unless the user clears it: no listen stays
\* pending for a destination that stays enabled, online, with a good token.  Rows no
\* service accepts, rate limits, outages, edits and crashes only delay it.
EventuallyDelivered ==
    \A d \in Destinations, i \in Listens :
        []<>~(/\ delivery[d][i] = "pending"
              /\ enabled[d] /\ online /\ token[d] \in GoodTokens)

----------------------------------------------------------------------------
(* What comments of the code say, and the code does not keep. *)

\* ListenBrainzScrobbler: "nothing is ever double-submitted".
NeverDoubleSubmitted == \A d \in Destinations, i \in Listens : accepted[d][i] <= 1

=============================================================================
