--------------------------- MODULE SpectatorHands ---------------------------
(* Spectators who ask players of a running game to let them see their hands:  *)
(* the requests of GameWebSocketController, the store of approvals, and the   *)
(* messages with a hand. Requests are under one mutex, approvals under        *)
(* another, and the seats of the game are read without its mutex: a hand is   *)
(* looked up in the store and in the seats first and taken from the game      *)
(* later.                                                                     *)
(*                                                                            *)
(* One session id is modelled. The cooldown between two requests of a         *)
(* spectator and the shorter time for which a player is shown a request are   *)
(* left out; that a request is too old becomes true at any time.              *)
EXTENDS Naturals, FiniteSets

CONSTANTS
    Watchers,        \* connections of spectators; each opens and closes once
    Spectators,      \* players who watch
    Who,             \* connection -> spectator
    Targets,         \* players of the game
    Chairs,          \* seats of the game
    MaxOutstanding,  \* kMaxOutstandingHandRequestsPerPlayer, 4 in the code
    MaxRequests,     \* bound: requests ever made
    MaxLookups,      \* bound: hands on their way at once
    NoOne

ASSUME WhoAssumption == Who \in [Watchers -> Spectators]
ASSUME TargetsAssumption == NoOne \notin Targets \cup Watchers
ASSUME RequestsAssumption == {MaxOutstanding, MaxRequests, MaxLookups} \subseteq Nat

VARIABLES
    watching,    \* connection -> new, open, about to ask somebody, closed
    asked,       \* connection -> whom it is about to ask
    requests,    \* spectator_hand_requests_: request -> who asks whom
    made,        \* next_hand_request_id_
    responding,  \* player -> the request he is answering and how
    grants,      \* spectator_hand_grants_: pairs of a spectator and a player
    lookups,     \* hands found in store and seats and not sent yet
    chair,       \* player -> his seat, NoOne when the game has no such player
    alive,       \* the session is active
    answers,     \* history: request -> results that have been sent
    dropped,     \* history: requests replaced, or closed with their connection
    consent,     \* history: who has let whom see his hand and not revoked it
    shown        \* history: the last hand sent: to whom, on whose consent, whose

handsVars == <<watching, asked, requests, made, responding, grants, lookups, chair, alive,
               answers, dropped, consent, shown>>
handsHistory == <<answers, dropped, consent, shown>>

Numbers == 1..MaxRequests
NoRequest == [by |-> NoOne, of |-> NoOne, old |-> FALSE]
NoAnswer == [number |-> 0, by |-> NoOne, approved |-> FALSE, told |-> FALSE]
NoHand == [to |-> NoOne, by |-> NoOne, of |-> NoOne, late |-> FALSE]

HandsTypeOK ==
    /\ watching \in [Watchers -> {"new", "open", "asking", "closed"}]
    /\ asked \in [Watchers -> Targets \cup {NoOne}]
    /\ requests \in [Numbers -> [by : Watchers \cup {NoOne}, of : Targets \cup {NoOne},
                                 old : BOOLEAN]]
    /\ made \in 0..MaxRequests
    /\ responding \in [Targets -> [number : 0..MaxRequests, by : Watchers \cup {NoOne},
                                   approved : BOOLEAN, told : BOOLEAN]]
    /\ grants \subseteq Spectators \X Targets
    /\ lookups \subseteq [by : Watchers, of : Targets, seat : Chairs, late : BOOLEAN]
    /\ chair \in [Targets -> Chairs \cup {NoOne}]
    /\ alive \in BOOLEAN
    /\ \A t \in Targets :
         Cardinality({n \in Numbers : requests[n].of = t}) <= MaxOutstanding

\* Everybody has a seat when the game begins.
Seatings == {f \in [Targets -> Chairs] : \A t, u \in Targets : f[t] = f[u] => t = u}

HandsInit ==
    /\ watching = [w \in Watchers |-> "new"] /\ asked = [w \in Watchers |-> NoOne]
    /\ requests = [n \in Numbers |-> NoRequest] /\ made = 0
    /\ responding = [t \in Targets |-> NoAnswer]
    /\ grants = {} /\ lookups = {}
    /\ chair \in Seatings /\ alive = TRUE
    /\ answers = [n \in Numbers |-> 0] /\ dropped = {} /\ consent = {} /\ shown = NoHand

-----------------------------------------------------------------------------
(* Hands                                                                     *)

\* resolveSpectatorHandGrants: the approvals for a spectator and the seats of
\* the players who gave them.
Found(w, targets) ==
    {[by |-> w, of |-> t, seat |-> chair[t], late |-> FALSE] :
       t \in {u \in targets : <<Who[w], u>> \in grants /\ chair[u] # NoOne}}

\* Approvals of players who have no seat are forgotten at that occasion.
GrantsKept(w) == {g \in grants : g[1] = Who[w] => chair[g[2]] # NoOne}

\* sendApprovedHand up to the seat it has found.
LooksUp(w, targets) ==
    IF alive THEN /\ lookups' = lookups \cup Found(w, targets)
                  /\ Cardinality(lookups') <= MaxLookups
                  /\ grants' = GrantsKept(w)
    ELSE UNCHANGED <<lookups, grants>>

\* build_spectator_hand_payload for that seat, under the mutex of the game.
SendHand(l) ==
    /\ l \in lookups
    /\ lookups' = lookups \ {l}
    /\ \/ \E t \in Targets :
            /\ alive /\ chair[t] = l.seat
            /\ shown' = [to |-> Who[l.by], by |-> l.of, of |-> t, late |-> l.late]
       \/ ~alive /\ UNCHANGED shown
    /\ UNCHANGED <<watching, asked, requests, made, responding, grants, chair, alive,
                   answers, dropped, consent>>

\* handleNewConnection for a spectator: the session must be active; he is sent
\* the hands for which he has approvals from an earlier connection.
Watch(w) ==
    /\ watching[w] = "new" /\ alive
    /\ watching' = [watching EXCEPT ![w] = "open"]
    /\ LooksUp(w, Targets)
    /\ UNCHANGED <<asked, requests, made, responding, chair, alive, handsHistory>>

\* spectator.hand.refresh for one player; for all of them when the spectator
\* turns to another perspective.
Refresh(w) ==
    /\ watching[w] = "open" /\ alive
    /\ \E targets \in {{t} : t \in Targets} \cup {Targets} : LooksUp(w, targets)
    /\ UNCHANGED <<watching, asked, requests, made, responding, chair, alive, handsHistory>>

-----------------------------------------------------------------------------
(* Requests                                                                  *)

RequestsOf(w) == {n \in Numbers : requests[n].by = w}
Forget(numbers) == [n \in Numbers |-> IF n \in numbers THEN NoRequest ELSE requests[n]]

\* handleSpectatorHandRequest takes the spectator's older requests back ...
Ask(w, t) ==
    /\ watching[w] = "open" /\ alive /\ chair[t] # NoOne
    /\ watching' = [watching EXCEPT ![w] = "asking"]
    /\ asked' = [asked EXCEPT ![w] = t]
    /\ requests' = Forget(RequestsOf(w))
    /\ dropped' = dropped \cup RequestsOf(w)
    /\ UNCHANGED <<made, responding, grants, lookups, chair, alive, answers, consent, shown>>

\* ... and adds the new one, unless the player has enough of them.
Enqueue(w) ==
    /\ watching[w] = "asking"
    /\ watching' = [watching EXCEPT ![w] = "open"]
    /\ asked' = [asked EXCEPT ![w] = NoOne]
    /\ IF Cardinality({n \in Numbers : requests[n].of = asked[w]}) >= MaxOutstanding
       THEN UNCHANGED <<requests, made>>
       ELSE /\ made < MaxRequests
            /\ made' = made + 1
            /\ requests' = [requests EXCEPT ![made + 1] =
                              [by |-> w, of |-> asked[w], old |-> FALSE]]
    /\ UNCHANGED <<responding, grants, lookups, chair, alive, handsHistory>>

\* kSpectatorHandRequestServerTimeoutMs has passed.
GrowsOld(n) ==
    /\ requests[n] # NoRequest /\ ~requests[n].old
    /\ requests' = [requests EXCEPT ![n].old = TRUE]
    /\ UNCHANGED <<watching, asked, made, responding, grants, lookups, chair, alive, handsHistory>>

\* Mutant: the request stays.
ExpireLeaving(n) ==
    /\ requests[n].old
    /\ answers' = [answers EXCEPT ![n] = @ + 1]
    /\ UNCHANGED <<watching, asked, requests, made, responding, grants, lookups, chair, alive,
                   dropped, consent, shown>>

\* expireSpectatorHandRequest, on the timer of the request: refused, if it is
\* still there.
Expire(n) ==
    /\ requests[n].old
    /\ requests' = Forget({n})
    /\ answers' = [answers EXCEPT ![n] = @ + 1]
    /\ UNCHANGED <<watching, asked, made, responding, grants, lookups, chair, alive,
                   dropped, consent, shown>>

\* handleSpectatorHandResponse takes the request, whose answer is now his.
Respond(t, n, approved) ==
    LET good == approved /\ ~requests[n].old
    IN  /\ responding[t] = NoAnswer
        /\ requests[n] # NoRequest /\ requests[n].of = t
        /\ requests' = Forget({n})
        /\ responding' = [responding EXCEPT ![t] = [number |-> n, by |-> requests[n].by,
                                                    approved |-> good, told |-> FALSE]]
        /\ consent' = IF good THEN consent \cup {<<Who[requests[n].by], t>>} ELSE consent
        /\ UNCHANGED <<watching, asked, made, grants, lookups, chair, alive,
                       answers, dropped, shown>>

\* The approval is stored and the result sent.
Answer(t) ==
    LET a == responding[t]
    IN  /\ a # NoAnswer /\ ~a.told
        /\ grants' = IF a.approved THEN grants \cup {<<Who[a.by], t>>} ELSE grants
        /\ answers' = [answers EXCEPT ![a.number] = @ + 1]
        /\ responding' = [responding EXCEPT ![t] = IF a.approved THEN [a EXCEPT !.told = TRUE]
                                                   ELSE NoAnswer]
        /\ UNCHANGED <<watching, asked, requests, made, lookups, chair, alive,
                       dropped, consent, shown>>

\* A spectator who is still there gets the hand at once.
AnswerWithHand(t) ==
    LET a == responding[t]
    IN  /\ a.told
        /\ responding' = [responding EXCEPT ![t] = NoAnswer]
        /\ IF watching[a.by] # "closed" THEN LooksUp(a.by, {t}) ELSE UNCHANGED <<lookups, grants>>
        /\ UNCHANGED <<watching, asked, requests, made, chair, alive, handsHistory>>

\* Mutant: the approval stays in the store.
RevokeForNow(t, s) ==
    /\ responding[t] = NoAnswer
    /\ alive /\ chair[t] # NoOne /\ <<s, t>> \in grants
    /\ consent' = consent \ {<<s, t>>}
    /\ lookups' = {[l EXCEPT !.late = @ \/ (Who[l.by] = s /\ l.of = t)] : l \in lookups}
    /\ UNCHANGED <<watching, asked, requests, made, responding, grants, chair, alive,
                   answers, dropped, shown>>

\* handleSpectatorHandRevoke. Hands on their way to the spectator are late.
Revoke(t, s) ==
    /\ responding[t] = NoAnswer
    /\ alive /\ chair[t] # NoOne /\ <<s, t>> \in grants
    /\ grants' = grants \ {<<s, t>>}
    /\ consent' = consent \ {<<s, t>>}
    /\ lookups' = {[l EXCEPT !.late = @ \/ (Who[l.by] = s /\ l.of = t)] : l \in lookups}
    /\ UNCHANGED <<watching, asked, requests, made, responding, chair, alive,
                   answers, dropped, shown>>

\* handleConnectionClosed for a spectator.
Unwatch(w) ==
    /\ watching[w] = "open"
    /\ watching' = [watching EXCEPT ![w] = "closed"]
    /\ requests' = Forget(RequestsOf(w))
    /\ dropped' = dropped \cup RequestsOf(w)
    /\ UNCHANGED <<asked, made, responding, grants, lookups, chair, alive, answers, consent, shown>>

-----------------------------------------------------------------------------
(* The game: seats are shuffled between rounds, and it ends. A hand that has  *)
(* been looked up before the shuffle is late.                                *)
Shuffle ==
    /\ alive
    /\ chair' \in Seatings \ {chair}
    /\ lookups' = {[l EXCEPT !.late = TRUE] : l \in lookups}
    /\ UNCHANGED <<watching, asked, requests, made, responding, grants, alive, handsHistory>>

GameGoes ==
    /\ alive
    /\ alive' = FALSE
    /\ UNCHANGED <<watching, asked, requests, made, responding, grants, lookups, chair, handsHistory>>

HandsNext ==
    \/ \E l \in lookups : SendHand(l)
    \/ \E w \in Watchers : Watch(w) \/ Refresh(w) \/ Enqueue(w) \/ Unwatch(w)
    \/ \E w \in Watchers, t \in Targets : Ask(w, t)
    \/ \E n \in Numbers : GrowsOld(n) \/ Expire(n)
    \/ \E t \in Targets : Answer(t) \/ AnswerWithHand(t)
    \/ \E t \in Targets, n \in Numbers, approved \in BOOLEAN : Respond(t, n, approved)
    \/ \E t \in Targets, s \in Spectators : Revoke(t, s)
    \/ Shuffle
    \/ GameGoes

HandsSpec == HandsInit /\ [][HandsNext]_handsVars

-----------------------------------------------------------------------------
(* Properties                                                                *)

\* A hand goes only to a spectator whom its owner has let see it and has not
\* sent away since, whichever of his connections or of the owner's answers
\* asked for it; only while the hand is on its way may the owner revoke, or a
\* shuffle of the seats put another hand in its place.
HandsByConsent ==
    [][shown' # shown /\ ~shown'.late =>
         shown'.of = shown'.by /\ <<shown'.to, shown'.of>> \in consent]_handsVars

\* Every request is answered at most once, although the answer of the player,
\* the time-out and the spectator's next request race for it; and a request
\* that is gone has been answered, is being answered, or has been dropped.
RequestsAnsweredOnce ==
    \A n \in 1..made :
      /\ answers[n] <= 1
      /\ n \in dropped => answers[n] = 0
      /\ requests[n] = NoRequest /\ n \notin dropped =>
           answers[n] = 1 \/ \E t \in Targets : responding[t].number = n

=============================================================================
