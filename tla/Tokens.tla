------------------------------- MODULE Tokens -------------------------------
(***************************************************************************)
(* The OAuth tokens of one creds file: the TokenManager every consumer of   *)
(* the file shares (internal/protocol/tesla/auth), and the Fleet and Owner  *)
(* poll sources that use it (fleet/poll/v1/source.go, owner/poll/v1).       *)
(*                                                                          *)
(* A grant of the token endpoint is a number: grant n carries the access    *)
(* and the refresh token n.  The endpoint accepts only the newest refresh   *)
(* token (Tesla rotates them), an access token until it expires.            *)
(*                                                                          *)
(* Pollers and the proactive loop run concurrently; an exchange holds       *)
(* refreshMu from the check to the save, and the process may die between    *)
(* any two of its steps.                                                    *)
(***************************************************************************)
EXTENDS Integers

CONSTANTS
    Pollers,     \* the poll loops of the account's vehicles
    MaxGrants,   \* bound of the model: grants of the token endpoint
    MaxRestarts  \* bound of the model: restarts of the process

ASSUME TokensAssumption ==
    /\ "loop" \notin Pollers /\ "none" \notin Pollers
    /\ MaxGrants \in Nat /\ MaxRestarts \in Nat

Refreshers == Pollers \union {"loop"}
Grants == 0..MaxGrants

VARIABLES
    live,     \* the endpoint: the newest grant
    valid,    \*   and the access tokens that have not expired
    mem,      \* TokenManager.creds
    refreshable, \* Creds.canRefresh: the file names a client and a refresh token
    due,      \* three quarters of the token's lifetime have passed (nextRefreshDelay is 0)
    refreshMu, \* who holds it, or "none"
    file,     \* the creds file
    unsaved,  \* the last SaveCreds failed
    proc,     \* the refreshers
    lost,     \* history: a grant the file does not hold was lost with its reply or a crash
    restarts

server  == <<live, valid>>
manager == <<mem, refreshable, due, refreshMu, file, unsaved>>
tokenVars == <<live, valid, mem, refreshable, due, refreshMu, file, unsaved, proc, lost, restarts>>

\* A refresher: pc, the access token a request was refused with (or is sent with), the
\* refresh token it offers, and whether the request may be retried.
Proc == [pc: {"idle", "send", "refresh", "exchange", "apply", "save", "again", "ended"},
         tok: Grants, offer: Grants, retry: BOOLEAN]

Idle == [pc |-> "idle", tok |-> 0, offer |-> 0, retry |-> FALSE]

TokensTypeOK ==
    /\ live \in Grants /\ valid \subseteq Grants
    /\ mem \in Grants /\ refreshable \in BOOLEAN /\ due \in BOOLEAN
    /\ refreshMu \in Refreshers \union {"none"}
    /\ file \in Grants /\ unsaved \in BOOLEAN
    /\ proc \in [Refreshers -> Proc]
    /\ lost \in BOOLEAN /\ restarts \in 0..MaxRestarts

Proceed(p, new) == proc' = [proc EXCEPT ![p] = new]

-----------------------------------------------------------------------------
(* The requests of a poll source.                                           *)

\* getWithRefresh, up to the request: the bearer is read once per request.
Token(p) ==
    /\ p \in Pollers
    /\ \/ /\ proc[p].pc = "idle"
          /\ Proceed(p, [pc |-> "send", tok |-> mem, offer |-> 0, retry |-> TRUE])
       \/ /\ proc[p].pc = "again"
          /\ Proceed(p, [pc |-> "send", tok |-> mem, offer |-> 0, retry |-> FALSE])
    /\ UNCHANGED <<server, manager, lost, restarts>>

\* The answer: the summary or vehicle_data (which begins anew with Token), another
\* failure, or a 401, after which the token is refreshed once.
Respond(p) ==
    /\ proc[p].pc = "send"
    /\ \/ Proceed(p, Idle)
       \/ /\ proc[p].tok \notin valid /\ proc[p].retry
          /\ Proceed(p, [proc[p] EXCEPT !.pc = "refresh"])
    /\ UNCHANGED <<server, manager, lost, restarts>>

-----------------------------------------------------------------------------
(* TokenManager.refresh.                                                    *)

\* loop, which Shared starts for creds that can be refreshed: its timer fires once the
\* token is due.  It names no stale token.
LoopWakes ==
    /\ proc["loop"].pc = "idle" /\ refreshable /\ due
    /\ Proceed("loop", [Idle EXCEPT !.pc = "refresh"])
    /\ UNCHANGED <<server, manager, lost, restarts>>

\* Faulty variant: no single flight.
BeginRefreshUnlocked(p) ==
    /\ proc[p].pc = "refresh" /\ refreshable
    /\ IF p # "loop" /\ mem # proc[p].tok
       THEN Proceed(p, [proc[p] EXCEPT !.pc = "again"]) /\ UNCHANGED refreshMu
       ELSE /\ Proceed(p, [proc[p] EXCEPT !.pc = "exchange", !.offer = mem])
            /\ refreshMu' = p
    /\ UNCHANGED <<server, mem, refreshable, due, file, unsaved, lost, restarts>>

\* With refreshMu: there is nothing to exchange, somebody else has refreshed since, or
\* the exchange begins on a snapshot of the creds.
BeginRefresh(p) ==
    /\ proc[p].pc = "refresh" /\ refreshMu = "none"
    /\ \/ ~refreshable /\ Proceed(p, Idle) /\ UNCHANGED refreshMu
       \/ /\ refreshable /\ p # "loop" /\ mem # proc[p].tok
          /\ Proceed(p, [proc[p] EXCEPT !.pc = "again"]) /\ UNCHANGED refreshMu
       \/ /\ refreshable /\ (p = "loop" \/ mem = proc[p].tok)
          /\ Proceed(p, [proc[p] EXCEPT !.pc = "exchange", !.offer = mem])
          /\ refreshMu' = p
    /\ UNCHANGED <<server, mem, refreshable, due, file, unsaved, lost, restarts>>

\* Faulty variant: the loop ends with the first failure.
FailOnce(p, terminal) ==
    /\ Proceed(p, [Idle EXCEPT !.pc = IF p = "loop" THEN "ended" ELSE "idle"])
    /\ refreshMu' = "none"

\* refresh returns an error: a poller reports its 401, the loop tries again later or,
\* when its refresh token was rejected, ends.
Fail(p, terminal) ==
    /\ Proceed(p, [Idle EXCEPT !.pc = IF p = "loop" /\ terminal THEN "ended" ELSE "idle"])
    /\ refreshMu' = "none"

\* exchangeRefreshToken: granted, and the answer arrives or is lost.
Granted(p) ==
    /\ proc[p].offer = live /\ live < MaxGrants
    /\ live' = live + 1 /\ valid' = valid \union {live + 1}
    /\ \/ /\ Proceed(p, [proc[p] EXCEPT !.pc = "apply", !.offer = live + 1])
          /\ UNCHANGED <<refreshMu, lost>>
       \/ Fail(p, FALSE) /\ lost' = TRUE

\* Or it fails, or the token is rejected (RefreshError.Terminal).
Exchange(p) ==
    /\ proc[p].pc = "exchange"
    /\ \/ Granted(p)
       \/ Fail(p, FALSE) /\ UNCHANGED <<server, lost>>
       \/ proc[p].offer # live /\ Fail(p, TRUE) /\ UNCHANGED <<server, lost>>
    /\ UNCHANGED <<mem, refreshable, due, file, unsaved, restarts>>

\* The new tokens and their lifetime go live, under m.mu.
Apply(p) ==
    /\ proc[p].pc = "apply"
    /\ mem' = proc[p].offer /\ due' = FALSE
    /\ Proceed(p, [proc[p] EXCEPT !.pc = "save"])
    /\ UNCHANGED <<server, refreshable, refreshMu, file, unsaved, lost, restarts>>

\* Faulty variant: what is saved is the snapshot the exchange began with.
SavedSnapshot(p) == proc[p].tok

\* toSave.
Saved(p) == proc[p].offer

\* SaveCreds replaces the file whole or not at all; either way the refresh succeeded.
Save(p) ==
    /\ proc[p].pc = "save"
    /\ \/ file' = Saved(p) /\ unsaved' = FALSE
       \/ UNCHANGED file /\ unsaved' = TRUE
    /\ Proceed(p, IF p = "loop" THEN Idle ELSE [proc[p] EXCEPT !.pc = "again"])
    /\ refreshMu' = "none"
    /\ UNCHANGED <<server, mem, refreshable, due, lost, restarts>>

-----------------------------------------------------------------------------
(* Time and faults.                                                         *)

Expire(g) ==
    /\ g \in valid
    /\ valid' = valid \ {g}
    /\ UNCHANGED <<live, manager, proc, lost, restarts>>

Age ==
    /\ ~due /\ due' = TRUE
    /\ UNCHANGED <<server, mem, refreshable, refreshMu, file, unsaved, proc, lost, restarts>>

\* The process dies and is started again (Shared, LoadCreds).  A request under way may
\* still reach the endpoint.
Restart ==
    /\ restarts < MaxRestarts /\ restarts' = restarts + 1
    /\ \/ UNCHANGED server
       \/ /\ \E p \in Refreshers : proc[p].pc = "exchange" /\ proc[p].offer = live
          /\ live < MaxGrants
          /\ live' = live + 1 /\ valid' = valid \union {live + 1}
    /\ mem' = file /\ due' \in BOOLEAN /\ refreshMu' = "none"
    /\ proc' = [p \in Refreshers |-> Idle]
    /\ lost' = (lost \/ file # live')
    /\ UNCHANGED <<refreshable, file, unsaved>>

TokensInit ==
    /\ live = 0 /\ valid \in {{}, {0}}
    /\ mem = 0 /\ refreshable \in BOOLEAN /\ due \in BOOLEAN /\ refreshMu = "none"
    /\ file = 0 /\ unsaved = FALSE
    /\ proc = [p \in Refreshers |-> Idle]
    /\ lost = FALSE /\ restarts = 0

Refresh(p) == BeginRefresh(p) \/ Exchange(p) \/ Apply(p) \/ Save(p)

TokensNext ==
    \/ \E p \in Pollers : Token(p) \/ Respond(p)
    \/ LoopWakes
    \/ \E p \in Refreshers : Refresh(p)
    \/ \E g \in Grants : Expire(g)
    \/ Age

TokensSpec == TokensInit /\ [][TokensNext \/ Restart]_tokenVars

\* An exchange whose answer arrives with a grant.
Answered(p) == Exchange(p) /\ proc'[p].pc = "apply"

\* Time passes and the goroutines run; a mutex that is released again and again is
\* acquired in the end (sync.Mutex hands over after 1 ms); an endpoint that is asked
\* again and again with its newest token grants in the end.
TokensFairness ==
    /\ WF_tokenVars(Age) /\ WF_tokenVars(LoopWakes)
    /\ \A p \in Refreshers :
          /\ SF_tokenVars(BeginRefresh(p))
          /\ SF_tokenVars(Answered(p))
          /\ WF_tokenVars(Exchange(p)) /\ WF_tokenVars(Apply(p)) /\ WF_tokenVars(Save(p))
    /\ \A p \in Pollers : WF_tokenVars(Token(p)) /\ WF_tokenVars(Respond(p))

FairTokensSpec == TokensSpec /\ TokensFairness

-----------------------------------------------------------------------------
(* Properties.                                                              *)

\* The rotated refresh token is offered once: whichever of the loop and the refused
\* requests of several vehicles come together, an exchange that begins offers the
\* newest, unless a grant was lost with its answer or with the process.
SpentNeverOffered ==
    \A p \in Refreshers : proc[p].pc = "exchange" => proc[p].offer = live \/ lost

\* What a restart would load is the newest grant whenever no exchange is under way and
\* the last save succeeded.
RestartIsLive == refreshMu = "none" /\ ~unsaved => file = live \/ lost

\* An expired access token is replaced even if no vehicle asks: the loop goes on after
\* every failure that is not final, whoever it meets at the mutex.
TokenRecovers ==
    refreshable /\ mem \notin valid ~> mem \in valid \/ lost \/ live = MaxGrants
=============================================================================
