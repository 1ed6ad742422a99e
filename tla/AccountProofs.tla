---------------------------- MODULE AccountProofs ---------------------------
(***************************************************************************)
(* Proofs about the three parts of an account: its tokens (Tokens), the    *)
(* dialers of the Owner stream that follow a live connection (Dialer) and  *)
(* the command path (Commands), for any number of pollers, grants,         *)
(* restarts, slots, flaps, commands and vehicles, and any delays and       *)
(* timeouts.  The three specifications share no variable.                  *)
(***************************************************************************)
EXTENDS Tokens, Dialer, Commands, FiniteSetTheorems, TLAPS

-----------------------------------------------------------------------------
(* The tokens.  An exchange is three steps (exchange, apply, save) of one   *)
(* refresher; the invariant says whose they are and what each piece of      *)
(* state knows of the newest grant between them, as long as no grant has    *)
(* been lost.                                                               *)

Exchanging == {"exchange", "apply", "save"}

\* refreshMu is held by whoever is between the check and the save.
Exclusive == \A p \in Refreshers : proc[p].pc \in Exchanging => refreshMu = p

\* Before the grant the manager's token is the newest and is the one offered; after it
\* the refresher alone has the newest, until it has applied it.
HolderKnows ==
    \A p \in Refreshers :
        /\ proc[p].pc = "exchange" => proc[p].offer = live /\ mem = live
        /\ proc[p].pc = "apply" => proc[p].offer = live
        /\ proc[p].pc = "save" => proc[p].offer = live /\ mem = live

\* The file follows the last save that succeeded.
FileKnows ==
    ~unsaved => \/ file = live
                \/ \E p \in Refreshers : proc[p].pc \in {"apply", "save"}

\* Between two exchanges the manager has the newest grant.
Settled == refreshMu = "none" => mem = live

\* The loop ends for a rejected token only.
LoopLives == proc["loop"].pc # "ended"

TokensInv ==
    /\ TokensTypeOK /\ Exclusive
    /\ ~lost => HolderKnows /\ FileKnows /\ Settled /\ LoopLives

-----------------------------------------------------------------------------

\* The bookkeeping every proof needs: who the refreshers are and what an idle one is.
LEMMA Refreshing ==
    /\ "loop" \in Refreshers /\ "none" \notin Refreshers /\ Pollers \subseteq Refreshers
    /\ MaxGrants \in Nat /\ MaxRestarts \in Nat
    /\ Idle \in Proc /\ [Idle EXCEPT !.pc = "refresh"] \in Proc
    /\ [Idle EXCEPT !.pc = "ended"] \in Proc
  <1>1. /\ "loop" \in Refreshers /\ "none" \notin Refreshers /\ Pollers \subseteq Refreshers
        /\ MaxGrants \in Nat /\ MaxRestarts \in Nat
    BY TokensAssumption DEF Refreshers
  <1>2. 0 \in Grants
    BY <1>1 DEF Grants
  <1>3. Idle \in Proc
    BY <1>2 DEF Idle, Proc
  <1>4. [Idle EXCEPT !.pc = "refresh"] \in Proc /\ [Idle EXCEPT !.pc = "ended"] \in Proc
    BY <1>3 DEF Proc
  <1> QED
    BY <1>1, <1>3, <1>4

\* A manager that has just loaded the file.
LEMMA TokensStart == TokensInit => TokensInv
  <1> SUFFICES ASSUME TokensInit PROVE TokensInv
    OBVIOUS
  <1>0. 0 \in Grants
    BY Refreshing DEF Grants
  <1>1. TokensTypeOK
    <2>1. live \in Grants /\ mem \in Grants /\ file \in Grants /\ valid \subseteq Grants
      BY <1>0 DEF TokensInit
    <2>2. proc \in [Refreshers -> Proc] /\ restarts \in 0..MaxRestarts
      BY Refreshing DEF TokensInit
    <2> QED
      BY <2>1, <2>2 DEF TokensInit, TokensTypeOK
  <1>2. ASSUME NEW p \in Refreshers PROVE proc[p].pc = "idle"
    BY DEF TokensInit, Idle
  <1> QED
    BY <1>1, <1>2, Refreshing
       DEF TokensInit, TokensInv, Exclusive, Exchanging, HolderKnows, FileKnows, Settled, LoopLives


-----------------------------------------------------------------------------
(* Steps.                                                                   *)

\* Proceed changes one refresher.
LEMMA ProceedSets ==
    ASSUME TokensTypeOK, NEW p \in Refreshers, NEW new \in Proc, Proceed(p, new)
    PROVE  /\ proc' \in [Refreshers -> Proc] /\ proc'[p] = new
           /\ \A q \in Refreshers \ {p} : proc'[q] = proc[q]
  BY DEF Proceed, TokensTypeOK

\* A step of a refresher that is not exchanging, and leaves the tokens alone, keeps the
\* invariant.
LEMMA QuietStep ==
    ASSUME TokensInv, TokensTypeOK', NEW p \in Refreshers,
           UNCHANGED <<live, mem, file, unsaved, lost, refreshMu>>,
           \A q \in Refreshers \ {p} : proc'[q] = proc[q],
           proc[p].pc \notin Exchanging, proc'[p].pc \notin Exchanging \union {"ended"}
    PROVE  TokensInv'
  <1>1. Exclusive'
    BY DEF TokensInv, Exclusive
  <1>2. ASSUME ~lost PROVE HolderKnows' /\ LoopLives' /\ Settled'
    BY <1>2, Refreshing DEF TokensInv, HolderKnows, LoopLives, Settled, Exchanging
  <1>3. ASSUME ~lost PROVE FileKnows'
    <2>1. CASE unsaved \/ file = live
      BY <2>1 DEF FileKnows
    <2>2. CASE \E r \in Refreshers : proc[r].pc \in {"apply", "save"}
      <3>1. PICK r \in Refreshers : proc[r].pc \in {"apply", "save"}
        BY <2>2
      <3>2. r # p
        BY <3>1 DEF Exchanging
      <3> QED
        BY <3>1, <3>2 DEF FileKnows
    <2> QED
      BY <1>3, <2>1, <2>2 DEF TokensInv, FileKnows
  <1> QED
    BY <1>1, <1>2, <1>3 DEF TokensInv

\* A refresher of the mutex's holder is the only one that exchanges.
LEMMA OnlyHolder ==
    ASSUME TokensInv, NEW p \in Refreshers, refreshMu \in {p, "none"}
    PROVE  /\ \A q \in Refreshers \ {p} : proc[q].pc \notin Exchanging
           /\ refreshMu = "none" => proc[p].pc \notin Exchanging
  BY Refreshing DEF TokensInv, Exclusive

\* An exchange that fails leaves nobody exchanging.
LEMMA FailStep ==
    ASSUME TokensInv, NEW p \in Refreshers, NEW terminal \in BOOLEAN, Fail(p, terminal),
           proc[p].pc = "exchange"
    PROVE  /\ proc' \in [Refreshers -> Proc] /\ refreshMu' = "none"
           /\ \A q \in Refreshers : proc'[q].pc \notin Exchanging
           /\ proc["loop"].pc # "ended" /\ ~terminal => proc'["loop"].pc # "ended"
  <1> DEFINE new == [Idle EXCEPT !.pc = IF p = "loop" /\ terminal THEN "ended" ELSE "idle"]
  <1>1. Proceed(p, new) /\ refreshMu' = "none"
    BY DEF Fail
  <1>2. new \in Proc /\ new.pc \in {"idle", "ended"} /\ (~terminal => new.pc = "idle")
    BY Refreshing DEF Idle
  <1>3. TokensTypeOK /\ refreshMu = p
    BY DEF TokensInv, Exclusive, Exchanging
  <1> HIDE DEF new
  <1>4. /\ proc' \in [Refreshers -> Proc] /\ proc'[p] = new
        /\ \A q \in Refreshers \ {p} : proc'[q] = proc[q]
    BY <1>1, <1>2, <1>3, ProceedSets
  <1>5. \A q \in Refreshers \ {p} : proc[q].pc \notin Exchanging
    BY <1>3, OnlyHolder
  <1>6. \A q \in Refreshers : proc'[q].pc \notin Exchanging
    BY <1>2, <1>4, <1>5 DEF Exchanging
  <1>7. proc["loop"].pc # "ended" /\ ~terminal => proc'["loop"].pc # "ended"
    BY <1>2, <1>4, Refreshing
  <1> QED
    BY <1>1, <1>4, <1>6, <1>7

\* The requests of a poller change that poller only.
LEMMA RequestStep ==
    ASSUME TokensInv, NEW p \in Pollers, Token(p) \/ Respond(p)
    PROVE  TokensInv'
  <1>0. p \in Refreshers /\ TokensTypeOK /\ mem \in Grants /\ 0 \in Grants /\ proc[p] \in Proc
    BY Refreshing DEF TokensInv, TokensTypeOK, Grants
  <1>1. UNCHANGED <<server, manager, lost, restarts>> /\ proc[p].pc \in {"idle", "again", "send"}
    BY DEF Token, Respond
  <1>2. PICK new \in Proc : Proceed(p, new) /\ new.pc \in {"send", "idle", "refresh"}
    <2>1. CASE Token(p)
      <3>1. \A b \in BOOLEAN : [pc |-> "send", tok |-> mem, offer |-> 0, retry |-> b] \in Proc
        BY <1>0 DEF Proc
      <3> QED
        BY <2>1, <3>1 DEF Token
    <2>2. CASE Respond(p)
      <3>1. [proc[p] EXCEPT !.pc = "refresh"] \in Proc
            /\ [proc[p] EXCEPT !.pc = "refresh"].pc = "refresh" /\ Idle.pc = "idle"
        BY <1>0 DEF Proc, Idle
      <3> QED
        BY <2>2, <3>1, Refreshing DEF Respond
    <2> QED
      BY <2>1, <2>2
  <1>3. /\ proc' \in [Refreshers -> Proc] /\ proc'[p] = new
        /\ \A q \in Refreshers \ {p} : proc'[q] = proc[q]
    BY <1>0, <1>2, ProceedSets
  <1>4. TokensTypeOK'
    BY <1>0, <1>1, <1>3 DEF TokensTypeOK, server, manager
  <1> QED
    BY <1>0, <1>1, <1>2, <1>3, <1>4, QuietStep DEF server, manager, Exchanging

\* The loop's timer fires.
LEMMA LoopStep == ASSUME TokensInv, LoopWakes PROVE TokensInv'
  <1>1. TokensTypeOK /\ UNCHANGED <<server, manager, lost, restarts>> /\ proc["loop"].pc = "idle"
    BY DEF LoopWakes, TokensInv
  <1>2. /\ proc' \in [Refreshers -> Proc] /\ proc'["loop"] = [Idle EXCEPT !.pc = "refresh"]
        /\ \A q \in Refreshers \ {"loop"} : proc'[q] = proc[q]
    BY <1>1, Refreshing, ProceedSets DEF LoopWakes
  <1>3. proc'["loop"].pc = "refresh"
    BY <1>2 DEF Idle
  <1>4. TokensTypeOK'
    BY <1>1, <1>2 DEF TokensTypeOK, server, manager
  <1> QED
    BY <1>1, <1>2, <1>3, <1>4, Refreshing, QuietStep DEF server, manager, Exchanging

\* The check at the head of refresh: whoever passes it takes the mutex, and offers the
\* newest token.
LEMMA BeginStep == ASSUME TokensInv, NEW p \in Refreshers, BeginRefresh(p) PROVE TokensInv'
  <1>0. /\ TokensTypeOK /\ proc[p] \in Proc /\ mem \in Grants /\ proc[p].pc = "refresh"
        /\ refreshMu = "none"
        /\ UNCHANGED <<server, mem, refreshable, due, file, unsaved, lost, restarts>>
    BY DEF BeginRefresh, TokensInv, TokensTypeOK
  <1>1. CASE /\ UNCHANGED refreshMu
             /\ Proceed(p, Idle) \/ Proceed(p, [proc[p] EXCEPT !.pc = "again"])
    <2>1. PICK new \in Proc : Proceed(p, new) /\ new.pc \in {"idle", "again"}
      <3>1. [proc[p] EXCEPT !.pc = "again"] \in Proc
            /\ [proc[p] EXCEPT !.pc = "again"].pc = "again" /\ Idle.pc = "idle"
        BY <1>0 DEF Proc, Idle
      <3> QED
        BY <1>1, <3>1, Refreshing
    <2>2. /\ proc' \in [Refreshers -> Proc] /\ proc'[p] = new
          /\ \A q \in Refreshers \ {p} : proc'[q] = proc[q]
      BY <1>0, <2>1, ProceedSets
    <2>3. TokensTypeOK'
      BY <1>0, <1>1, <2>2 DEF TokensTypeOK, server
    <2> QED
      BY <1>0, <1>1, <2>1, <2>2, <2>3, QuietStep DEF server, Exchanging
  <1>2. CASE /\ Proceed(p, [proc[p] EXCEPT !.pc = "exchange", !.offer = mem])
             /\ refreshMu' = p
    <2> DEFINE new == [proc[p] EXCEPT !.pc = "exchange", !.offer = mem]
    <2>1. new \in Proc /\ new.pc = "exchange" /\ new.offer = mem
      BY <1>0 DEF Proc
    <2> HIDE DEF new
    <2>2. /\ proc' \in [Refreshers -> Proc] /\ proc'[p] = new
          /\ \A q \in Refreshers \ {p} : proc'[q] = proc[q]
      BY <1>0, <1>2, <2>1, ProceedSets DEF new
    <2>3. TokensTypeOK'
      BY <1>0, <1>2, <2>2 DEF TokensTypeOK, server
    <2>4. \A q \in Refreshers \ {p} : proc'[q].pc \notin Exchanging
      BY <1>0, <2>2, OnlyHolder
    <2>5. Exclusive'
      BY <1>2, <2>4 DEF Exclusive
    <2>6. ASSUME ~lost PROVE HolderKnows' /\ FileKnows' /\ Settled' /\ LoopLives'
      <3>1. /\ mem = live /\ proc["loop"].pc # "ended"
            /\ ~unsaved => file = live
        BY <1>0, <2>6, OnlyHolder
           DEF TokensInv, Settled, LoopLives, FileKnows, Exchanging
      <3>2. HolderKnows'
        BY <1>0, <2>1, <2>2, <2>4, <3>1 DEF HolderKnows, Exchanging, server
      <3>3. FileKnows' /\ Settled'
        BY <1>0, <1>2, <3>1, Refreshing DEF FileKnows, Settled, server
      <3>4. LoopLives'
        BY <2>1, <2>2, <3>1, Refreshing DEF LoopLives
      <3> QED
        BY <3>2, <3>3, <3>4
    <2> QED
      BY <1>0, <2>3, <2>5, <2>6 DEF TokensInv
  <1> QED
    BY <1>1, <1>2 DEF BeginRefresh

\* The exchange with the token endpoint: the grant, its loss, or a failure.
LEMMA ExchangeStep == ASSUME TokensInv, NEW p \in Refreshers, Exchange(p) PROVE TokensInv'
  <1>0. /\ TokensTypeOK /\ proc[p] \in Proc /\ proc[p].pc = "exchange" /\ refreshMu = p
        /\ live \in Nat /\ MaxGrants \in Nat
        /\ UNCHANGED <<mem, refreshable, due, file, unsaved, restarts>>
    BY Refreshing DEF Exchange, TokensInv, TokensTypeOK, Exclusive, Exchanging, Grants
  <1>1. CASE \E terminal \in BOOLEAN :
                Fail(p, terminal) /\ UNCHANGED <<server, lost>>
                /\ (terminal => proc[p].offer # live)
    <2>1. PICK terminal \in BOOLEAN :
                Fail(p, terminal) /\ UNCHANGED <<server, lost>>
                /\ (terminal => proc[p].offer # live)
      BY <1>1
    <2>2. /\ proc' \in [Refreshers -> Proc] /\ refreshMu' = "none"
          /\ \A q \in Refreshers : proc'[q].pc \notin Exchanging
          /\ proc["loop"].pc # "ended" /\ ~terminal => proc'["loop"].pc # "ended"
      BY <1>0, <2>1, FailStep
    <2>3. TokensTypeOK'
      BY <1>0, <2>1, <2>2 DEF TokensTypeOK, server
    <2>4. ASSUME ~lost PROVE mem = live /\ (~unsaved => file = live) /\ ~terminal
                             /\ proc["loop"].pc # "ended"
      <3>1. \A q \in Refreshers : proc[q].pc \notin {"apply", "save"}
        BY <1>0, OnlyHolder DEF Exchanging
      <3> QED
        BY <1>0, <2>1, <2>4, <3>1 DEF TokensInv, HolderKnows, FileKnows, LoopLives
    <2> QED
      BY <1>0, <2>1, <2>2, <2>3, <2>4
         DEF TokensInv, Exclusive, HolderKnows, FileKnows, Settled, LoopLives, server, Exchanging
  <1>2. CASE Granted(p)
    <2>1. /\ live' = live + 1 /\ valid' = valid \union {live + 1} /\ live + 1 \in Grants
      BY <1>0, <1>2 DEF Granted, Grants
    <2>2. CASE Fail(p, FALSE) /\ lost' = TRUE
      <3>1. /\ proc' \in [Refreshers -> Proc] /\ refreshMu' = "none"
            /\ \A q \in Refreshers : proc'[q].pc \notin Exchanging
        BY <1>0, <2>2, FailStep
      <3> QED
        BY <1>0, <2>1, <2>2, <3>1 DEF TokensInv, TokensTypeOK, Exclusive
    <2>3. CASE /\ Proceed(p, [proc[p] EXCEPT !.pc = "apply", !.offer = live + 1])
               /\ UNCHANGED <<refreshMu, lost>>
      <3> DEFINE new == [proc[p] EXCEPT !.pc = "apply", !.offer = live + 1]
      <3>1. new \in Proc /\ new.pc = "apply" /\ new.offer = live + 1
        BY <1>0, <2>1 DEF Proc
      <3> HIDE DEF new
      <3>2. /\ proc' \in [Refreshers -> Proc] /\ proc'[p] = new
            /\ \A q \in Refreshers \ {p} : proc'[q] = proc[q]
        BY <1>0, <2>3, <3>1, ProceedSets DEF new
      <3>3. TokensTypeOK'
        BY <1>0, <2>1, <2>3, <3>2 DEF TokensTypeOK
      <3>4. \A q \in Refreshers \ {p} : proc'[q].pc \notin Exchanging
        BY <1>0, <3>2, OnlyHolder
      <3>5. Exclusive'
        BY <1>0, <2>3, <3>4 DEF Exclusive
      <3>6. ASSUME ~lost PROVE HolderKnows' /\ FileKnows' /\ Settled' /\ LoopLives'
        <4>1. HolderKnows'
          BY <2>1, <3>1, <3>2, <3>4 DEF HolderKnows, Exchanging
        <4>2. FileKnows' /\ Settled'
          BY <1>0, <2>3, <3>1, <3>2, Refreshing DEF FileKnows, Settled
        <4>3. LoopLives'
          BY <3>1, <3>2, <3>6, Refreshing DEF TokensInv, LoopLives
        <4> QED
          BY <4>1, <4>2, <4>3
      <3> QED
        BY <2>3, <3>3, <3>5, <3>6 DEF TokensInv
    <2> QED
      BY <1>2, <2>2, <2>3 DEF Granted
  <1> QED
    BY <1>1, <1>2 DEF Exchange

\* The new tokens go live.
LEMMA ApplyStep == ASSUME TokensInv, NEW p \in Refreshers, Apply(p) PROVE TokensInv'
  <1> DEFINE new == [proc[p] EXCEPT !.pc = "save"]
  <1>0. /\ TokensTypeOK /\ proc[p] \in Proc /\ proc[p].pc = "apply" /\ refreshMu = p
        /\ mem' = proc[p].offer /\ due' = FALSE /\ Proceed(p, new)
        /\ UNCHANGED <<live, valid, refreshable, refreshMu, file, unsaved, lost, restarts>>
    BY DEF Apply, TokensInv, TokensTypeOK, Exclusive, Exchanging, server
  <1>1. /\ new \in Proc /\ new.pc = "save" /\ new.offer = proc[p].offer
        /\ proc[p].offer \in Grants
    BY <1>0 DEF Proc
  <1> HIDE DEF new
  <1>2. /\ proc' \in [Refreshers -> Proc] /\ proc'[p] = new
        /\ \A q \in Refreshers \ {p} : proc'[q] = proc[q]
    BY <1>0, <1>1, ProceedSets
  <1>3. TokensTypeOK'
    BY <1>0, <1>1, <1>2 DEF TokensTypeOK
  <1>4. \A q \in Refreshers \ {p} : proc'[q].pc \notin Exchanging
    BY <1>0, <1>2, OnlyHolder
  <1>5. Exclusive'
    BY <1>0, <1>4 DEF Exclusive
  <1>6. ASSUME ~lost PROVE HolderKnows' /\ FileKnows' /\ Settled' /\ LoopLives'
    <2>1. proc[p].offer = live
      BY <1>0, <1>6 DEF TokensInv, HolderKnows
    <2>2. HolderKnows'
      BY <1>0, <1>1, <1>2, <1>4, <2>1 DEF HolderKnows, Exchanging
    <2>3. FileKnows' /\ Settled'
      BY <1>0, <1>1, <1>2, Refreshing DEF FileKnows, Settled
    <2>4. LoopLives'
      BY <1>1, <1>2, <1>6, Refreshing DEF TokensInv, LoopLives
    <2> QED
      BY <2>2, <2>3, <2>4
  <1> QED
    BY <1>0, <1>3, <1>5, <1>6 DEF TokensInv

\* The file is replaced, or not; the mutex is released.
LEMMA SaveStep == ASSUME TokensInv, NEW p \in Refreshers, Save(p) PROVE TokensInv'
  <1> DEFINE new == IF p = "loop" THEN Idle ELSE [proc[p] EXCEPT !.pc = "again"]
  <1>0. /\ TokensTypeOK /\ proc[p] \in Proc /\ proc[p].pc = "save" /\ refreshMu = p
        /\ \/ file' = proc[p].offer /\ unsaved' = FALSE
           \/ file' = file /\ unsaved' = TRUE
        /\ Proceed(p, new) /\ refreshMu' = "none"
        /\ UNCHANGED <<live, valid, mem, refreshable, due, lost, restarts>>
    BY DEF Save, Saved, TokensInv, TokensTypeOK, Exclusive, Exchanging, server
  <1>1. new \in Proc /\ new.pc \in {"idle", "again"} /\ proc[p].offer \in Grants
    <2>1. /\ [proc[p] EXCEPT !.pc = "again"] \in Proc
          /\ [proc[p] EXCEPT !.pc = "again"].pc = "again" /\ proc[p].offer \in Grants
      BY <1>0 DEF Proc
    <2> QED
      BY <2>1, Refreshing DEF Idle
  <1> HIDE DEF new
  <1>2. /\ proc' \in [Refreshers -> Proc] /\ proc'[p] = new
        /\ \A q \in Refreshers \ {p} : proc'[q] = proc[q]
    BY <1>0, <1>1, ProceedSets
  <1>3. TokensTypeOK'
    BY <1>0, <1>1, <1>2 DEF TokensTypeOK
  <1>4. \A q \in Refreshers : proc'[q].pc \notin Exchanging
    BY <1>0, <1>1, <1>2, OnlyHolder DEF Exchanging
  <1>5. ASSUME ~lost PROVE HolderKnows' /\ FileKnows' /\ Settled' /\ LoopLives'
    <2>1. proc[p].offer = live /\ mem = live /\ proc["loop"].pc # "ended"
      BY <1>0, <1>5 DEF TokensInv, HolderKnows, LoopLives
    <2>2. HolderKnows'
      BY <1>4 DEF HolderKnows, Exchanging
    <2>3. FileKnows' /\ Settled'
      BY <1>0, <2>1 DEF FileKnows, Settled
    <2>4. LoopLives'
      BY <1>1, <1>2, <2>1, Refreshing DEF LoopLives
    <2> QED
      BY <2>2, <2>3, <2>4
  <1> QED
    BY <1>0, <1>3, <1>4, <1>5 DEF TokensInv, Exclusive

\* A restart loads what the file has; a grant it does not have is lost.
LEMMA RestartStep == ASSUME TokensInv, Restart PROVE TokensInv'
  <1>0. /\ TokensTypeOK /\ live \in Nat /\ MaxGrants \in Nat /\ file \in Grants
        /\ mem' = file /\ due' \in BOOLEAN /\ refreshMu' = "none" /\ file' = file
        /\ proc' = [p \in Refreshers |-> Idle] /\ lost' = (lost \/ file # live')
        /\ restarts' \in 0..MaxRestarts /\ UNCHANGED <<refreshable, unsaved>>
    BY Refreshing DEF Restart, TokensInv, TokensTypeOK, Grants
  <1>1. live' \in Grants /\ valid' \subseteq Grants
    <2>1. CASE UNCHANGED server
      BY <1>0, <2>1 DEF TokensTypeOK, server
    <2>2. CASE live < MaxGrants /\ live' = live + 1 /\ valid' = valid \union {live + 1}
      <3>1. live + 1 \in Grants
        BY <1>0, <2>2 DEF Grants
      <3> QED
        BY <1>0, <2>2, <3>1 DEF TokensTypeOK
    <2> QED
      BY <2>1, <2>2 DEF Restart
  <1>2. proc' \in [Refreshers -> Proc] /\ \A q \in Refreshers : proc'[q].pc = "idle"
    BY <1>0, Refreshing DEF Idle
  <1>3. TokensTypeOK'
    <2>1. lost' \in BOOLEAN
      BY <1>0
    <2> QED
      BY <1>0, <1>1, <1>2, <2>1 DEF TokensTypeOK
  <1>4. ~lost' => file = live'
    BY <1>0
  <1> QED
    BY <1>0, <1>2, <1>3, <1>4, Refreshing
       DEF TokensInv, Exclusive, Exchanging, HolderKnows, FileKnows, Settled, LoopLives

\* Every step keeps the invariant.
LEMMA TokensStep == TokensInv /\ [TokensNext \/ Restart]_tokenVars => TokensInv'
  <1> SUFFICES ASSUME TokensInv, [TokensNext \/ Restart]_tokenVars PROVE TokensInv'
    OBVIOUS
  <1>1. ASSUME NEW p \in Refreshers, Refresh(p) PROVE TokensInv'
    BY <1>1, BeginStep, ExchangeStep, ApplyStep, SaveStep DEF Refresh
  <1>2. CASE UNCHANGED tokenVars \/ Age \/ \E g \in Grants : Expire(g)
    <2>1. UNCHANGED <<live, mem, refreshable, refreshMu, file, unsaved, proc, lost, restarts>>
          /\ (valid' = valid \/ \E g \in Grants : valid' = valid \ {g})
          /\ (due' = due \/ due' = TRUE)
      BY <1>2 DEF tokenVars, Age, Expire, server, manager
    <2>2. TokensTypeOK'
      BY <2>1 DEF TokensInv, TokensTypeOK
    <2> QED
      BY <2>1, <2>2
         DEF TokensInv, Exclusive, HolderKnows, FileKnows, Settled, LoopLives
  <1> QED
    BY <1>1, <1>2, RequestStep, LoopStep, RestartStep DEF TokensNext

-----------------------------------------------------------------------------
(* Theorems.                                                                *)

\* The invariant holds, from any number of pollers and restarts.
LEMMA TokensInvariant == TokensSpec => []TokensInv
  BY TokensStart, TokensStep, PTL DEF TokensSpec

\* The token manager's state and its refreshers keep their types.
THEOREM TokensTyped == TokensSpec => []TokensTypeOK
  BY TokensInvariant, PTL DEF TokensInv

\* A rotated refresh token is never offered again (TokenManager.refresh holds refreshMu
\* from the check of the stale token to the save), unless a grant was lost.
THEOREM RotatedOfferedOnce == TokensSpec => []SpentNeverOffered
  <1>1. TokensInv => SpentNeverOffered
    BY DEF TokensInv, HolderKnows, SpentNeverOffered
  <1> QED
    BY <1>1, TokensInvariant, PTL

\* Between two exchanges the creds file holds the newest grant if the last SaveCreds
\* succeeded, so a restart finds a usable refresh token.
THEOREM FileIsLive == TokensSpec => []RestartIsLive
  <1>1. ASSUME TokensInv, refreshMu = "none", ~unsaved, ~lost PROVE file = live
    <2>1. \A p \in Refreshers : proc[p].pc \notin Exchanging
      BY <1>1, Refreshing DEF TokensInv, Exclusive
    <2> QED
      BY <1>1, <2>1 DEF TokensInv, FileKnows, Exchanging
  <1>2. TokensInv => RestartIsLive
    BY <1>1 DEF RestartIsLive
  <1> QED
    BY <1>2, TokensInvariant, PTL

\* At most one exchange is under way, whoever asked for it.
SingleFlight ==
    \A p, q \in Refreshers : proc[p].pc \in Exchanging /\ proc[q].pc \in Exchanging => p = q

\* Single flight: of the loop and the refused pollers one at a time exchanges.
THEOREM OneExchange == TokensSpec => []SingleFlight
  <1>1. TokensInv => SingleFlight
    BY DEF TokensInv, Exclusive, SingleFlight
  <1> QED
    BY <1>1, TokensInvariant, PTL

\* The proactive loop has ended only if a grant was lost.
LoopEndsForLoss == proc["loop"].pc = "ended" => lost

\* TokenManager.loop gives up on a terminal error only, and there is none unless a grant
\* was lost with its answer or with the process.
THEOREM LoopOutlivesFailures == TokensSpec => []LoopEndsForLoss
  <1>1. TokensInv => LoopEndsForLoss
    BY DEF TokensInv, LoopLives, LoopEndsForLoss
  <1> QED
    BY <1>1, TokensInvariant, PTL

-----------------------------------------------------------------------------
(* The dialers.                                                             *)

\* The supervisor's flag, the gauge and the one context that lives agree.
GaugeInv ==
    /\ connected = IF running THEN 1 ELSE 0
    /\ running => \E d \in 1..Slots : Serving = {d}
    /\ ~running => Serving = {}

\* What n barren sessions in a row warrant.
Warranted(n) == Cap(Initial * 2 ^ n)

\* The interval is what the next barren session has to wait.
Escalated(x) ==
    /\ x.interval >= Warranted(x.barren)
    /\ x.pc = "waiting" =>
         10 * x.delay >= 9 * Cap(Initial * (IF x.barren = 0 THEN 1 ELSE 2 ^ (x.barren - 1)))

BackoffInv == \A d \in 1..Slots : Escalated(dialer[d])

\* The dialers that have not returned yet, cancelled or not.
Alive == {d \in 1..Slots : dialer[d].pc # "none"}

\* Two changes of Power at least lie between two starts; what is owed of them depends on
\* how far the supervisor is behind the car.
Owed == IF running THEN IF online THEN 2 ELSE 1 ELSE IF online THEN 0 ELSE 1

AliveInv ==
    /\ 2 * Cardinality(Alive) <= flaps + 2
    /\ super # "returned" => 2 * Cardinality(Alive) <= flaps + Owed

DialerInv == TypeOK /\ GaugeInv /\ BackoffInv /\ AliveInv

\* The dialers' goroutines, those that were cancelled and have not noticed included, are
\* at most one more than the times the car went to sleep and came back.
DialersBounded == 2 * Cardinality(Alive) <= flaps + 2

\* The bound on slots never keeps the supervisor from starting a dialer.
SlotForEveryStart == super = "evaluate" /\ online /\ ~running => Free # {}

-----------------------------------------------------------------------------

LEMMA DialerConstants ==
    /\ Slots \in Nat /\ MaxFlaps \in Nat /\ MaxFlaps < 2 * Slots
    /\ Initial \in Nat /\ Initial >= 1 /\ MaxDelay \in Nat /\ Initial <= MaxDelay
  BY DialerAssumption

\* One more barren session doubles what is warranted.
LEMMA WarrantedDoubles ==
    ASSUME NEW n \in 0..MaxDelay
    PROVE  /\ Warranted(n) \in 0..MaxDelay /\ Warranted(0) = Initial
           /\ Warranted(n + 1) >= Warranted(n)
           /\ \A i \in Initial..MaxDelay :
                i >= Warranted(n) => Cap(2 * i) >= Warranted(n) /\ Cap(2 * i) >= Warranted(n + 1)
  <1> DEFINE p == Initial * 2 ^ n
  <1>1. 2 ^ 0 = 1
    OBVIOUS
  <1>2. 2 ^ n \in Nat /\ 2 ^ (n + 1) = 2 * 2 ^ n
    BY PowersDouble
  <1>3. \A a, b \in Nat : a * b \in Nat /\ a * (2 * b) = 2 * (a * b)
    OBVIOUS
  <1>4. p \in Nat /\ Initial * 2 ^ (n + 1) = 2 * p
    BY <1>2, <1>3, DialerConstants
  <1>5. Warranted(n) = Cap(p) /\ Warranted(n + 1) = Cap(2 * p)
    BY <1>4 DEF Warranted
  <1>6. Warranted(0) = Initial
    BY <1>1, DialerConstants DEF Warranted, Cap
  <1> HIDE DEF p
  <1>7. Warranted(n) \in 0..MaxDelay /\ Warranted(n + 1) >= Warranted(n)
    BY <1>4, <1>5, DialerConstants DEF Cap
  <1>8. ASSUME NEW i \in Initial..MaxDelay, i >= Warranted(n)
        PROVE  Cap(2 * i) >= Warranted(n) /\ Cap(2 * i) >= Warranted(n + 1)
    BY <1>4, <1>5, <1>8, DialerConstants DEF Cap
  <1> QED
    BY <1>6, <1>7, <1>8

\* The dialer start puts into a free slot.
Started == [NoDialer EXCEPT !.pc = "loop", !.live = TRUE]

LEMMA FreshDialer ==
    /\ NoDialer \in Dialers /\ Escalated(NoDialer) /\ ~NoDialer.live /\ NoDialer.pc = "none"
    /\ Started \in Dialers /\ Escalated(Started) /\ Started.live /\ Started.pc = "loop"
  <1>1. NoDialer \in Dialers /\ ~NoDialer.live /\ NoDialer.pc = "none"
    BY DialerConstants DEF NoDialer, Dialers
  <1>2. Started \in Dialers /\ Started.live /\ Started.pc = "loop"
    BY <1>1 DEF Dialers, Started
  <1>3. 0 \in 0..MaxDelay /\ Warranted(0) = Initial
    BY DialerConstants, WarrantedDoubles
  <1>4. NoDialer.barren = 0 /\ NoDialer.interval = Initial
    BY DEF NoDialer
  <1>5. Started.barren = 0 /\ Started.interval = Initial
    BY <1>1, <1>4 DEF Dialers, Started
  <1>6. Initial >= Warranted(0)
    BY <1>3, DialerConstants
  <1> QED
    BY <1>1, <1>2, <1>4, <1>5, <1>6 DEF Escalated

LEMMA AliveFinite ==
    /\ IsFiniteSet(Alive) /\ Cardinality(Alive) \in Nat
    /\ \A S \in SUBSET Alive : Cardinality(S) \in Nat /\ Cardinality(S) <= Cardinality(Alive)
  <1>1. IsFiniteSet(1..Slots)
    BY FS_Interval, DialerConstants
  <1>2. Alive \subseteq 1..Slots
    BY DEF Alive
  <1>3. IsFiniteSet(Alive)
    BY <1>1, <1>2, FS_Subset
  <1> QED
    BY <1>3, FS_Subset, FS_CardinalityType

\* Before anything was started.
LEMMA DialerInit == Init => DialerInv
  <1> SUFFICES ASSUME Init PROVE DialerInv
    OBVIOUS
  <1>1. \A d \in 1..Slots : dialer[d] = NoDialer
    BY DEF Init
  <1>2. TypeOK
    <2>1. dialer \in [1..Slots -> Dialers]
      BY FreshDialer DEF Init
    <2>2. flaps \in 0..MaxFlaps /\ connected \in Int
      BY DialerConstants DEF Init
    <2> QED
      BY <2>1, <2>2 DEF Init, TypeOK
  <1>3. Serving = {} /\ Alive = {}
    BY <1>1, FreshDialer DEF Serving, Alive
  <1>4. GaugeInv
    BY <1>3 DEF GaugeInv, Init
  <1>5. BackoffInv
    BY <1>1, FreshDialer DEF BackoffInv
  <1>6. AliveInv
    BY <1>3, FS_EmptySet DEF AliveInv, Owed, Init
  <1> QED
    BY <1>2, <1>4, <1>5, <1>6 DEF DialerInv

\* A step of one dialer that keeps its context and starts no other.
LEMMA DialerMoves ==
    ASSUME DialerInv, NEW d \in 1..Slots, NEW x \in Dialers, Escalated(x),
           x.live = dialer[d].live, x.pc # "none" => dialer[d].pc # "none",
           Become(d, x), UNCHANGED <<online, flaps, done, supervisor>>, event' \in BOOLEAN
    PROVE  DialerInv'
  <1> USE DEF DialerInv
  <1>1. dialer \in [1..Slots -> Dialers] /\ dialer' = [dialer EXCEPT ![d] = x]
    BY DEF Become, TypeOK
  <1>2. TypeOK'
    BY <1>1 DEF TypeOK, supervisor
  <1>3. Serving' = Serving
    BY <1>1 DEF Serving
  <1>4. GaugeInv'
    BY <1>3 DEF GaugeInv, supervisor
  <1>5. BackoffInv'
    BY <1>1 DEF BackoffInv
  <1>6. Alive' \subseteq Alive
    BY <1>1 DEF Alive
  <1>7. Cardinality(Alive') \in Nat /\ Cardinality(Alive) \in Nat
        /\ Cardinality(Alive') <= Cardinality(Alive)
    BY <1>6, AliveFinite
  <1>8. flaps' = flaps /\ flaps \in Nat /\ super' = super /\ Owed' = Owed /\ Owed \in Nat
    BY DEF TypeOK, supervisor, Owed
  <1>9. AliveInv'
    BY <1>7, <1>8 DEF AliveInv
  <1> QED
    BY <1>2, <1>4, <1>5, <1>9

\* A step that touches no dialer and not the supervisor's books.
LEMMA DialersStay ==
    ASSUME DialerInv, UNCHANGED <<running, connected, dialer>>, TypeOK', AliveInv'
    PROVE  DialerInv'
  <1>1. Serving' = Serving
    BY DEF Serving
  <1>2. GaugeInv'
    BY <1>1 DEF GaugeInv, DialerInv
  <1>3. BackoffInv'
    BY DEF BackoffInv, DialerInv
  <1> QED
    BY <1>2, <1>3 DEF DialerInv

\* BackOff of a live dialer: the delay is the interval but for the jitter, and the
\* interval doubles.
LEMMA BackOffEscalates ==
    ASSUME NEW d \in 1..Slots, dialer[d] \in Dialers, Escalated(dialer[d]),
           NEW w \in Jittered(Interval(d))
    PROVE  LET x == [dialer[d] EXCEPT !.pc = "waiting", !.delay = w,
                                      !.interval = Cap(2 * Interval(d)),
                                      !.barren = IF dialer[d].gotFrame THEN 0 ELSE Cap(@ + 1)]
           IN  x \in Dialers /\ Escalated(x)
  <1> DEFINE o == dialer[d]
             i == Interval(d)
             b == IF o.gotFrame THEN 0 ELSE Cap(o.barren + 1)
             x == [o EXCEPT !.pc = "waiting", !.delay = w, !.interval = Cap(2 * i), !.barren = b]
  <1>1. /\ o.interval \in Initial..MaxDelay /\ o.barren \in 0..MaxDelay /\ o.gotFrame \in BOOLEAN
    BY DEF Dialers
  <1>2. i \in Initial..MaxDelay /\ i \in 0..MaxDelay
    BY <1>1, DialerConstants DEF Interval
  <1>3. Cap(2 * i) \in Initial..MaxDelay /\ b \in 0..MaxDelay
    BY <1>1, <1>2, DialerConstants DEF Cap
  <1>4. w \in 0..2 * MaxDelay /\ 10 * w >= 9 * i
    BY DEF Jittered
  <1>5. x \in Dialers
    BY <1>3, <1>4 DEF Dialers
  <1>6. /\ x.pc = "waiting" /\ x.delay = w /\ x.interval = Cap(2 * i) /\ x.barren = b
    BY DEF Dialers
  <1>7. Cap(2 * i) >= Warranted(b) /\ i >= Cap(Initial * (IF b = 0 THEN 1 ELSE 2 ^ (b - 1)))
    <2>1. CASE o.gotFrame
      <3>1. b = 0 /\ i = Initial
        BY <2>1 DEF Interval
      <3>2. Initial * 1 = Initial /\ Cap(Initial) = Initial
        BY DialerConstants DEF Cap
      <3>3. 0 \in 0..MaxDelay /\ Warranted(0) = Initial /\ i >= Warranted(0)
        BY <3>1, WarrantedDoubles, DialerConstants
      <3>4. Cap(2 * i) >= Warranted(0)
        BY <1>2, <3>3, WarrantedDoubles
      <3> QED
        BY <3>1, <3>2, <3>4, DialerConstants
    <2>2. CASE ~o.gotFrame
      <3> DEFINE n == o.barren
      <3>1. i = o.interval /\ i >= Warranted(n) /\ b = Cap(n + 1)
        BY <2>2 DEF Interval, Escalated
      <3>2. Cap(2 * i) >= Warranted(n) /\ Cap(2 * i) >= Warranted(n + 1)
        BY <1>1, <1>2, <3>1, WarrantedDoubles
      <3>3. CASE n < MaxDelay
        <4>1. b = n + 1 /\ b # 0 /\ b - 1 = n
          BY <1>1, <3>1, <3>3, DialerConstants DEF Cap
        <4> QED
          BY <3>1, <3>2, <4>1 DEF Warranted
      <3>4. CASE n = MaxDelay
        <4>1. b = n /\ b # 0 /\ b - 1 \in 0..MaxDelay /\ (b - 1) + 1 = b
          BY <1>1, <3>1, <3>4, DialerConstants DEF Cap
        <4>2. Warranted(b - 1) \in 0..MaxDelay /\ Warranted(b) \in 0..MaxDelay
          BY <1>3, <4>1, WarrantedDoubles
        <4>3. Warranted((b - 1) + 1) >= Warranted(b - 1)
          BY <4>1, WarrantedDoubles
        <4>4. i >= Warranted(b - 1)
          BY <1>2, <3>1, <4>1, <4>2, <4>3
        <4> QED
          BY <3>2, <4>1, <4>4 DEF Warranted
      <3>5. n < MaxDelay \/ n = MaxDelay
        BY <1>1, DialerConstants
      <3> QED
        BY <3>3, <3>4, <3>5
    <2> QED
      BY <1>1, <2>1, <2>2
  <1>8. Escalated(x)
    <2>1. PICK c : c = Cap(Initial * (IF b = 0 THEN 1 ELSE 2 ^ (b - 1)))
      OBVIOUS
    <2>2. c \in Nat /\ i >= c
      <3>1. CASE b = 0
        <4>1. c = Cap(Initial * 1) /\ Initial * 1 = Initial
          BY <2>1, <3>1, DialerConstants
        <4>2. c \in Nat
          BY <4>1, DialerConstants DEF Cap
        <4> QED
          BY <1>7, <2>1, <4>2
      <3>2. CASE b # 0
        <4>1. b - 1 \in 0..MaxDelay
          BY <1>3, <3>2, DialerConstants
        <4>2. c = Warranted(b - 1)
          BY <2>1, <3>2 DEF Warranted
        <4>3. c \in Nat
          BY <4>1, <4>2, WarrantedDoubles, DialerConstants
        <4> QED
          BY <1>7, <2>1, <4>3
      <3> QED
        BY <3>1, <3>2
    <2>3. 10 * w >= 9 * c
      BY <1>2, <1>4, <2>2
    <2> HIDE DEF x, b, i
    <2> QED
      BY <1>6, <1>7, <2>1, <2>3 DEF Escalated
  <1> QED
    BY <1>5, <1>8

\* eval with a car that came online: a dialer in a slot of its own.
LEMMA StartKeeps ==
    ASSUME DialerInv, super = "evaluate", super' = "select", online, ~running, Start,
           UNCHANGED cache
    PROVE  DialerInv'
  <1> USE DEF DialerInv
  <1>1. Slot \in Free /\ Slot \in 1..Slots /\ Slot \notin Alive
    BY DEF Start, Slot, Free, Alive
  <1>2. PICK d \in 1..Slots : d = Slot
    BY <1>1
  <1>3. dialer \in [1..Slots -> Dialers] /\ dialer' = [dialer EXCEPT ![d] = Started]
    BY <1>2 DEF Start, Started, TypeOK
  <1>4. TypeOK'
    <2>1. dialer' \in [1..Slots -> Dialers]
      BY <1>3, FreshDialer
    <2>2. connected' \in Int /\ running' \in BOOLEAN
      BY DEF Start, TypeOK
    <2> QED
      BY <2>1, <2>2 DEF TypeOK, cache
  <1>5. GaugeInv'
    <2>1. connected = 0 /\ \A e \in 1..Slots : ~dialer[e].live
      BY DEF GaugeInv, Serving
    <2>2. Serving' = {d}
      BY <1>3, <2>1, FreshDialer DEF Serving
    <2> QED
      BY <2>1, <2>2 DEF GaugeInv, Start
  <1>6. BackoffInv'
    BY <1>3, FreshDialer DEF BackoffInv
  <1>7. Alive' = Alive \union {d} /\ d \notin Alive
    BY <1>1, <1>2, <1>3, FreshDialer DEF Alive
  <1>8. Cardinality(Alive') = Cardinality(Alive) + 1 /\ Cardinality(Alive) \in Nat
    BY <1>7, AliveFinite, FS_AddElement
  <1>9. Owed = 0 /\ Owed' = 2 /\ flaps' = flaps /\ flaps \in Nat
    BY DEF Owed, Start, cache, TypeOK
  <1>10. AliveInv'
    BY <1>8, <1>9 DEF AliveInv
  <1> QED
    BY <1>4, <1>5, <1>6, <1>10

\* The stop closure, for a car that went away or a context that is done.
LEMMA StopKeeps ==
    ASSUME DialerInv, running, Stop, UNCHANGED cache,
           super' \in {"evaluate", "select", "returned"}, ~online \/ super' = "returned",
           super # "returned"
    PROVE  DialerInv'
  <1> USE DEF DialerInv
  <1>1. \A d \in 1..Slots : dialer[d] \in Dialers
    BY DEF TypeOK
  <1>2. \A d \in 1..Slots : dialer'[d] = [dialer[d] EXCEPT !.live = FALSE]
    BY DEF Stop
  <1>3. ASSUME NEW d \in 1..Slots
        PROVE  /\ dialer'[d] \in Dialers /\ ~dialer'[d].live /\ dialer'[d].pc = dialer[d].pc
               /\ dialer'[d].interval = dialer[d].interval /\ dialer'[d].delay = dialer[d].delay
               /\ dialer'[d].barren = dialer[d].barren
    <2>1. dialer[d] \in Dialers /\ dialer'[d] = [dialer[d] EXCEPT !.live = FALSE]
      BY <1>1, <1>2
    <2> HIDE DEF DialerInv
    <2> QED
      BY <2>1 DEF Dialers
  <1>4. TypeOK'
    <2>1. dialer' \in [1..Slots -> Dialers]
      BY <1>3 DEF Stop
    <2>2. connected' \in Int
      BY DEF Stop, TypeOK
    <2>3. running' \in BOOLEAN
      BY DEF Stop
    <2> QED
      BY <2>1, <2>2, <2>3 DEF TypeOK, cache
  <1>5. GaugeInv'
    <2>1. Serving' = {}
      BY <1>3 DEF Serving
    <2> QED
      BY <2>1 DEF GaugeInv, Stop
  <1>6. BackoffInv'
    BY <1>3 DEF BackoffInv, Escalated
  <1>7. Alive' = Alive
    BY <1>3 DEF Alive
  <1>8. Cardinality(Alive) \in Nat /\ flaps' = flaps /\ flaps \in Nat /\ online' = online
        /\ running' = FALSE
    BY AliveFinite DEF cache, TypeOK, Stop
  <1>9. AliveInv'
    BY <1>7, <1>8 DEF AliveInv, Owed
  <1> QED
    BY <1>4, <1>5, <1>6, <1>9

\* Each step of the supervisor.
LEMMA SuperviseKeeps == DialerInv /\ Supervise => DialerInv'
  <1> SUFFICES ASSUME DialerInv, Supervise PROVE DialerInv'
    OBVIOUS
  <1> DEFINE Same == UNCHANGED <<running, connected, dialer>>
  <1>1. ASSUME Same, UNCHANGED <<online, flaps>>, super # "returned",
               event' \in BOOLEAN, done' = done, super' \in {"evaluate", "select", "returned"}
        PROVE  DialerInv'
    <2>1. TypeOK'
      BY <1>1 DEF DialerInv, TypeOK
    <2>2. Alive' = Alive /\ Owed' = Owed
      BY <1>1 DEF Alive, Owed
    <2>3. AliveInv'
      BY <1>1, <2>2 DEF AliveInv, DialerInv
    <2> QED
      BY <1>1, <2>1, <2>3, DialersStay
  <1>2. CASE Evaluate
    <2>1. super = "evaluate" /\ super' = "select" /\ UNCHANGED cache
      BY <1>2 DEF Evaluate
    <2>2. CASE online /\ ~running /\ Start
      BY <2>1, <2>2, StartKeeps
    <2>3. CASE ~online /\ running /\ Stop
      BY <2>1, <2>3, StopKeeps
    <2>4. CASE Same
      BY <1>1, <2>1, <2>4 DEF cache, DialerInv, TypeOK
    <2> QED
      BY <1>2, <2>2, <2>3, <2>4 DEF Evaluate
  <1>3. CASE Notified
    BY <1>1, <1>3 DEF Notified
  <1>4. CASE SuperviseReturns
    <2>1. super = "select" /\ super' = "returned" /\ UNCHANGED cache
      BY <1>4 DEF SuperviseReturns
    <2>2. CASE running /\ Stop
      BY <2>1, <2>2, StopKeeps
    <2>3. CASE Same
      BY <1>1, <2>1, <2>3 DEF cache, DialerInv, TypeOK
    <2> QED
      BY <1>4, <2>2, <2>3 DEF SuperviseReturns
  <1> QED
    BY <1>2, <1>3, <1>4 DEF Supervise

\* Each step of a dialer.
LEMMA StepKeeps ==
    ASSUME DialerInv, NEW d \in 1..Slots, Step(d) \/ OnMessage(d) \/ PeerCloses(d)
    PROVE  DialerInv'
  <1> DEFINE Frame == UNCHANGED <<online, flaps, done, supervisor>> /\ event' \in BOOLEAN
  <1>1. dialer[d] \in Dialers /\ Escalated(dialer[d]) /\ event \in BOOLEAN
    BY DEF DialerInv, TypeOK, BackoffInv
  <1>2. ASSUME NEW pc \in {"loop", "dialing", "open", "closed"}, NEW g \in BOOLEAN,
               dialer[d].pc # "none",
               Become(d, [dialer[d] EXCEPT !.pc = pc, !.gotFrame = g]), Frame
        PROVE  DialerInv'
    <2> DEFINE x == [dialer[d] EXCEPT !.pc = pc, !.gotFrame = g]
    <2>1. x \in Dialers /\ x.live = dialer[d].live /\ x.pc = pc
          /\ x.interval = dialer[d].interval /\ x.barren = dialer[d].barren
      BY <1>1 DEF Dialers
    <2>2. Escalated(x)
      BY <1>1, <2>1 DEF Escalated
    <2>3. PICK y \in Dialers : y = x
      BY <2>1
    <2> QED
      BY <1>2, <2>1, <2>2, <2>3, DialerMoves
  <1>3. ASSUME NEW pc \in {"loop", "dialing", "open", "closed"}, dialer[d].pc # "none",
               Become(d, [dialer[d] EXCEPT !.pc = pc]), Frame
        PROVE  DialerInv'
    <2>1. dialer[d].gotFrame \in BOOLEAN
          /\ [dialer[d] EXCEPT !.pc = pc] = [dialer[d] EXCEPT !.pc = pc, !.gotFrame = dialer[d].gotFrame]
      BY <1>1 DEF Dialers
    <2> QED
      BY <1>2, <1>3, <2>1
  <1>4. ASSUME ~dialer[d].live, Become(d, NoDialer), Frame
        PROVE  DialerInv'
    BY <1>1, <1>4, FreshDialer, DialerMoves DEF Dialers
  <1>5. CASE Loop(d)
    BY <1>1, <1>2, <1>4, <1>5 DEF Loop, cache
  <1>6. CASE Handshake(d)
    BY <1>1, <1>3, <1>6 DEF Handshake, cache
  <1>7. CASE WatcherCloses(d) \/ PeerCloses(d)
    BY <1>1, <1>3, <1>7 DEF WatcherCloses, PeerCloses, cache
  <1>8. CASE OnMessage(d)
    <2>1. [dialer[d] EXCEPT !.gotFrame = TRUE] = [dialer[d] EXCEPT !.pc = "open", !.gotFrame = TRUE]
      BY <1>1, <1>8 DEF OnMessage, Dialers
    <2> QED
      BY <1>2, <1>8, <2>1 DEF OnMessage
  <1>9. CASE BackOff(d)
    <2>1. CASE ~dialer[d].live
      BY <1>1, <1>4, <1>9, <2>1 DEF BackOff, cache
    <2>2. CASE dialer[d].live
      <3>1. PICK w \in Jittered(Interval(d)) :
              Become(d, [dialer[d] EXCEPT
                            !.pc = "waiting", !.delay = w, !.interval = Cap(2 * Interval(d)),
                            !.barren = IF dialer[d].gotFrame THEN 0 ELSE Cap(@ + 1)])
        BY <1>9, <2>2 DEF BackOff
      <3> DEFINE x == [dialer[d] EXCEPT !.pc = "waiting", !.delay = w,
                                        !.interval = Cap(2 * Interval(d)),
                                        !.barren = IF dialer[d].gotFrame THEN 0 ELSE Cap(@ + 1)]
      <3>2. x \in Dialers /\ Escalated(x)
        BY <1>1, BackOffEscalates
      <3>3. x.live = dialer[d].live
        BY <1>1 DEF Dialers
      <3>4. Become(d, x) /\ Frame /\ dialer[d].pc # "none"
        BY <1>1, <1>9, <2>2, <3>1 DEF BackOff, cache
      <3>5. PICK y \in Dialers : y = x
        BY <3>2
      <3> HIDE DEF x
      <3> QED
        BY <3>2, <3>3, <3>4, <3>5, DialerMoves
    <2> QED
      BY <1>1, <2>1, <2>2 DEF Dialers
  <1>10. CASE Wake(d)
    <2>1. CASE Become(d, NoDialer) /\ ~dialer[d].live
      <3>1. Frame
        BY <1>1, <1>10 DEF Wake, cache
      <3> QED
        BY <1>4, <2>1, <3>1
    <2>2. CASE Become(d, [dialer[d] EXCEPT !.pc = "loop", !.delay = 0])
      <3>1. PICK x : x = [dialer[d] EXCEPT !.pc = "loop", !.delay = 0]
        OBVIOUS
      <3>2. x \in Dialers
        <4>1. 0 \in 0..2 * MaxDelay
          BY DialerConstants
        <4> QED
          BY <1>1, <3>1, <4>1 DEF Dialers
      <3>3. /\ x.live = dialer[d].live /\ x.pc = "loop" /\ x.interval = dialer[d].interval
            /\ x.barren = dialer[d].barren
        BY <1>1, <3>1 DEF Dialers
      <3>4. Escalated(x)
        BY <1>1, <3>3 DEF Escalated
      <3>5. Become(d, x) /\ Frame /\ dialer[d].pc # "none"
        <4>1. dialer[d].pc # "none"
          BY <1>10 DEF Wake
        <4>2. Frame
          BY <1>1, <1>10 DEF Wake, cache
        <4> QED
          BY <2>2, <3>1, <4>1, <4>2
      <3> QED
        BY <3>2, <3>3, <3>4, <3>5, DialerMoves
    <2> QED
      BY <1>10, <2>1, <2>2 DEF Wake
  <1> QED
    BY <1>5, <1>6, <1>7, <1>8, <1>9, <1>10 DEF Step

\* Power changes, or the context is cancelled.
LEMMA EnvironmentKeeps == DialerInv /\ (Flap \/ Cancel) => DialerInv'
  <1> SUFFICES ASSUME DialerInv, Flap \/ Cancel PROVE DialerInv'
    OBVIOUS
  <1>1. UNCHANGED <<running, connected, dialer, super>>
    BY DEF Flap, Cancel, supervisor
  <1>2. TypeOK'
    <2>1. flaps' \in 0..MaxFlaps
      BY DialerConstants DEF Flap, Cancel, DialerInv, TypeOK
    <2>2. online' \in BOOLEAN /\ event' \in BOOLEAN /\ done' \in BOOLEAN
      BY DEF Flap, Cancel, DialerInv, TypeOK
    <2> QED
      BY <1>1, <2>1, <2>2 DEF DialerInv, TypeOK
  <1>3. Alive' = Alive /\ Cardinality(Alive) \in Nat /\ flaps \in Nat
    BY <1>1, AliveFinite DEF Alive, DialerInv, TypeOK
  <1>4. online \in BOOLEAN /\ running \in BOOLEAN
    BY DEF DialerInv, TypeOK
  <1>5. CASE Flap
    <2>1. flaps' = flaps + 1
      BY <1>5 DEF Flap
    <2>2. Owed \in Nat /\ Owed' + 1 >= Owed /\ Owed' \in Nat
      BY <1>1, <1>4, <1>5 DEF Owed, Flap
    <2>3. PICK n \in Nat : n = Cardinality(Alive) /\ n = Cardinality(Alive')
      BY <1>3
    <2>4. 2 * n <= flaps + 2 /\ (super # "returned" => 2 * n <= flaps + Owed)
      BY <2>3 DEF AliveInv, DialerInv
    <2>5. PICK o \in Nat, p \in Nat : o = Owed /\ p = Owed' /\ p + 1 >= o
      BY <2>2
    <2>6. AliveInv'
      <3>1. 2 * n <= flaps' + 2
        BY <1>3, <2>1, <2>4
      <3>2. super # "returned" => 2 * n <= flaps' + p
        <4>1. CASE super # "returned"
          <5>1. 2 * n <= flaps + o
            BY <2>4, <2>5, <4>1
          <5>2. p + 1 >= o /\ flaps \in Nat /\ flaps' = flaps + 1
            BY <1>3, <2>1, <2>5
          <5> QED
            BY <5>1, <5>2
        <4> QED
          BY <4>1
      <3> QED
        BY <1>1, <2>3, <2>5, <3>1, <3>2 DEF AliveInv
    <2> QED
      BY <1>1, <1>2, <2>6, DialersStay
  <1>6. CASE Cancel
    <2>1. AliveInv'
      BY <1>1, <1>3, <1>6 DEF AliveInv, DialerInv, Cancel, Owed
    <2> QED
      BY <1>1, <1>2, <2>1, DialersStay
  <1> QED
    BY <1>5, <1>6

LEMMA DialerNext == DialerInv /\ [Next]_vars => DialerInv'
  <1>1. DialerInv /\ UNCHANGED vars => DialerInv'
    <2> SUFFICES ASSUME DialerInv, UNCHANGED vars PROVE DialerInv'
      OBVIOUS
    <2>1. TypeOK'
      BY DEF DialerInv, TypeOK, vars
    <2>2. AliveInv'
      BY DEF DialerInv, AliveInv, Alive, Owed, vars
    <2> QED
      BY <2>1, <2>2, DialersStay DEF vars
  <1> QED
    BY <1>1, SuperviseKeeps, StepKeeps, EnvironmentKeeps DEF Next

LEMMA DialerInvariant == Spec => []DialerInv
  BY DialerInit, DialerNext, PTL DEF Spec

\* The dialers' types, for any bounds: an interval never passes ReconnectMax.
THEOREM DialerTyped == Spec => []TypeOK
  <1>1. DialerInv => TypeOK
    BY DEF DialerInv
  <1> QED
    BY <1>1, DialerInvariant, PTL

\* However the car flaps and however long cancelled dialers linger, supervise serves it
\* with one dialer that lives, or none, and the gauge says which.
THEOREM OneServes == Spec => []OneDialerServes
  <1>1. DialerInv => OneDialerServes
    BY FS_EmptySet, FS_Singleton DEF DialerInv, GaugeInv, OneDialerServes
  <1> QED
    BY <1>1, DialerInvariant, PTL

\* wssutil's backoff, reset by a session with a frame only: n sessions without one warrant
\* a wait of Initial * 2^(n-1), up to the cap, for any initial interval and cap.
THEOREM BarrenEscalate == Spec => []BarrenSessionsEscalate
  <1>1. DialerInv => BarrenSessionsEscalate
    BY DEF DialerInv, BackoffInv, Escalated, BarrenSessionsEscalate
  <1> QED
    BY <1>1, DialerInvariant, PTL

\* stop does not wait for the dialer it cancels, yet the goroutines that linger are bounded
\* by the flaps of the car, and the model's slots are enough for them.
THEOREM LingeringBounded == Spec => [](DialersBounded /\ SlotForEveryStart)
  <1>1. DialerInv => DialersBounded
    BY DEF DialerInv, AliveInv, DialersBounded
  <1>2. DialerInv => SlotForEveryStart
    <2> SUFFICES ASSUME DialerInv, super = "evaluate", online, ~running, Free = {}
                 PROVE  FALSE
      BY DEF SlotForEveryStart
    <2>1. Alive = 1..Slots
      BY DEF Alive, Free
    <2>2. Cardinality(Alive) = Slots
      BY <2>1, FS_Interval, DialerConstants
    <2>3. 2 * Cardinality(Alive) <= flaps /\ flaps \in 0..MaxFlaps
      BY DEF DialerInv, AliveInv, Owed, TypeOK
    <2> QED
      BY <2>2, <2>3, DialerConstants
  <1> QED
    BY <1>1, <1>2, DialerInvariant, PTL

-----------------------------------------------------------------------------
(* The command path.                                                        *)

CmdRecord == [pc: Open \union Outcomes \union {"none", "refused", "lost"},
              age: 0..MaxAge, left: 0..Timeout, tok: BOOLEAN]

\* A context that has not expired has at most what the request's age leaves of it.
Budget(x) ==
    /\ x.pc = "none" => x.age = 0 /\ x.left = 0
    /\ x.left > 0 => x.age + x.left <= Timeout

CmdInv ==
    /\ cmd \in [Cmds -> CmdRecord] /\ CommandsSerialized
    /\ \A k \in Cmds : Budget(cmd[k])

\* The commands dispatch has not returned from, and the ones SendCommand has counted in
\* this life of the process or an earlier one.
OpenCmds == {k \in Cmds : cmd[k].pc \in Open}
SentCmds == {k \in Cmds : cmd[k].pc \notin {"none", "refused"}}

\* Commands submitted are commands answered plus commands open, whenever the counters are
\* read, and after a restart.
CountersAddUp ==
    stats["sent"] = Cardinality(OpenCmds) + stats["infra"] + stats["nominal"] + stats["success"]

CountInv ==
    /\ stats \in [Outcomes \union {"sent"} -> Nat]
    /\ CountersAddUp /\ stats["sent"] <= Cardinality(SentCmds)

RestInv ==
    /\ sessions \subseteq Vins /\ cacheFile \subseteq Vins
    /\ accepted \in BOOLEAN /\ crashes \in 0..MaxCrashes

CommandsInv == CmdInv /\ CountInv /\ RestInv

-----------------------------------------------------------------------------

LEMMA CmdsFinite ==
    /\ \A S \in SUBSET Cmds : IsFiniteSet(S) /\ Cardinality(S) \in Nat
                              /\ Cardinality(S) <= Cardinality(Cmds)
    /\ \A S, T \in SUBSET Cmds : S \subseteq T => Cardinality(S) <= Cardinality(T)
    /\ Timeout \in Nat /\ MaxAge \in Nat /\ MaxCrashes \in Nat
  <1>1. IsFiniteSet(Cmds) /\ Timeout \in Nat /\ MaxAge \in Nat /\ MaxCrashes \in Nat
    BY CommandsAssumption
  <1>2. \A S \in SUBSET Cmds : IsFiniteSet(S) /\ Cardinality(S) \in Nat
    BY <1>1, FS_Subset, FS_CardinalityType
  <1>3. \A S, T \in SUBSET Cmds : S \subseteq T => Cardinality(S) <= Cardinality(T)
    BY <1>2, FS_Subset
  <1> QED
    BY <1>1, <1>2, <1>3

\* No counter passes the number of commands.
LEMMA CommandsInvTyped == ASSUME CommandsInv PROVE CommandsTypeOK
  <1> DEFINE n == Cardinality(Cmds)
             Names == Outcomes \union {"sent"}
  <1>1. Cardinality(OpenCmds) \in Nat /\ Cardinality(SentCmds) \in Nat
        /\ Cardinality(SentCmds) <= n /\ n \in Nat
    BY CmdsFinite DEF OpenCmds, SentCmds
  <1>2. \A o \in Names : stats[o] \in Nat
    BY DEF CommandsInv, CountInv
  <1>3. /\ "sent" \in Names /\ "infra" \in Names /\ "nominal" \in Names /\ "success" \in Names
        /\ \A o \in Names : o \in {"sent", "infra", "nominal", "success"}
    BY DEF Outcomes
  <1>4. stats["sent"] <= n /\ stats["infra"] <= n /\ stats["nominal"] <= n /\ stats["success"] <= n
    BY <1>1, <1>2, <1>3 DEF CommandsInv, CountInv, CountersAddUp
  <1>5. \A o \in Names : stats[o] \in 0..n
    BY <1>1, <1>2, <1>3, <1>4
  <1>6. stats \in [Names -> 0..n]
    BY <1>5 DEF CommandsInv, CountInv
  <1> QED
    BY <1>6 DEF CommandsInv, CmdInv, RestInv, CmdRecord, CommandsTypeOK

\* A step of one command: it takes its vehicle's mutex only when nobody has it.
LEMMA CommandMoves ==
    ASSUME CmdInv, NEW k \in Cmds, NEW x \in CmdRecord, Budget(x),
           x.pc \in Held => \/ cmd[k].pc \in Held
                              \/ \A j \in Cmds : VinOf[j] = VinOf[k] => cmd[j].pc \notin Held,
           cmd' = [cmd EXCEPT ![k] = x]
    PROVE  CmdInv'
  <1>1. cmd' \in [Cmds -> CmdRecord]
    BY DEF CmdInv
  <1>2. cmd'[k] = x /\ \A j \in Cmds : j # k => cmd'[j] = cmd[j]
    BY DEF CmdInv
  <1>3. \A j \in Cmds : Budget(cmd'[j])
    BY <1>2 DEF CmdInv
  <1>4. CommandsSerialized'
    <2> SUFFICES ASSUME NEW i \in Cmds, NEW j \in Cmds, i # j, VinOf[i] = VinOf[j],
                        cmd'[i].pc \in Held, cmd'[j].pc \in Held
                 PROVE  FALSE
      BY DEF CommandsSerialized, Held
    <2>1. CASE i = k
      BY <1>2, <2>1 DEF CmdInv, CommandsSerialized
    <2>2. CASE j = k
      BY <1>2, <2>2 DEF CmdInv, CommandsSerialized
    <2>3. CASE i # k /\ j # k
      BY <1>2, <2>3 DEF CmdInv, CommandsSerialized
    <2> QED
      BY <2>1, <2>2, <2>3
  <1> QED
    BY <1>1, <1>3, <1>4 DEF CmdInv

\* What a step of one command does to the sets that are counted.
LEMMA OneCommandCounted ==
    ASSUME CmdInv, NEW k \in Cmds, NEW x \in CmdRecord,
           cmd' = [cmd EXCEPT ![k] = x], cmd[k].pc # "none" => x.pc \notin {"none", "refused"}
    PROVE  /\ Cardinality(OpenCmds) \in Nat /\ Cardinality(SentCmds) \in Nat
           /\ k \in OpenCmds /\ x.pc \in Open => OpenCmds' = OpenCmds
           /\ k \notin OpenCmds /\ x.pc \notin Open => OpenCmds' = OpenCmds
           /\ k \notin OpenCmds /\ x.pc \in Open =>
                Cardinality(OpenCmds') = Cardinality(OpenCmds) + 1
           /\ k \in OpenCmds /\ x.pc \notin Open =>
                Cardinality(OpenCmds') = Cardinality(OpenCmds) - 1
           /\ Cardinality(SentCmds') \in Nat /\ Cardinality(SentCmds') >= Cardinality(SentCmds)
           /\ cmd[k].pc = "none" /\ x.pc \notin {"none", "refused"} =>
                Cardinality(SentCmds') = Cardinality(SentCmds) + 1
  <1>1. cmd'[k] = x /\ \A j \in Cmds : j # k => cmd'[j] = cmd[j]
    BY DEF CmdInv
  <1>2. OpenCmds \in SUBSET Cmds /\ SentCmds \in SUBSET Cmds /\ SentCmds' \in SUBSET Cmds
    BY DEF OpenCmds, SentCmds
  <1>3. IsFiniteSet(OpenCmds) /\ IsFiniteSet(SentCmds)
        /\ Cardinality(OpenCmds) \in Nat /\ Cardinality(SentCmds) \in Nat
        /\ Cardinality(SentCmds') \in Nat
    BY <1>2, CmdsFinite
  <1>4. OpenCmds' = IF x.pc \in Open THEN OpenCmds \union {k} ELSE OpenCmds \ {k}
    BY <1>1 DEF OpenCmds, Open, Held
  <1>5. k \notin OpenCmds /\ x.pc \in Open =>
            Cardinality(OpenCmds') = Cardinality(OpenCmds) + 1
    BY <1>3, <1>4, FS_AddElement
  <1>6. k \in OpenCmds /\ x.pc \notin Open =>
            Cardinality(OpenCmds') = Cardinality(OpenCmds) - 1
    BY <1>3, <1>4, FS_RemoveElement
  <1>7. SentCmds \subseteq SentCmds'
    BY <1>1 DEF SentCmds
  <1>8. Cardinality(SentCmds) <= Cardinality(SentCmds')
    BY <1>2, <1>7, CmdsFinite
  <1>9. cmd[k].pc = "none" /\ x.pc \notin {"none", "refused"} =>
            SentCmds' = SentCmds \union {k} /\ k \notin SentCmds
    BY <1>1 DEF SentCmds
  <1>10. cmd[k].pc = "none" /\ x.pc \notin {"none", "refused"} =>
            Cardinality(SentCmds') = Cardinality(SentCmds) + 1
    BY <1>3, <1>9, FS_AddElement
  <1> QED
    BY <1>3, <1>4, <1>5, <1>6, <1>8, <1>10

\* A command that goes on, or that was never one: nothing is counted.
LEMMA MoveUncounted ==
    ASSUME CmdInv, CountInv, NEW k \in Cmds, NEW x \in CmdRecord, Budget(x),
           x.pc \in Held => \/ cmd[k].pc \in Held
                              \/ \A j \in Cmds : VinOf[j] = VinOf[k] => cmd[j].pc \notin Held,
           \/ cmd[k].pc \in Open /\ x.pc \in Open
           \/ cmd[k].pc = "none" /\ x.pc = "refused",
           cmd' = [cmd EXCEPT ![k] = x], stats' = stats
    PROVE  CmdInv' /\ CountInv'
  <1>1. CmdInv'
    BY CommandMoves
  <1>2. cmd[k].pc # "none" => x.pc \notin {"none", "refused"}
    BY DEF Open, Held
  <1>3. OpenCmds' = OpenCmds /\ Cardinality(SentCmds') >= Cardinality(SentCmds)
        /\ Cardinality(SentCmds) \in Nat /\ Cardinality(SentCmds') \in Nat
    BY <1>2, OneCommandCounted DEF OpenCmds, Open, Held
  <1>4. stats["sent"] \in Nat
    BY DEF CountInv, Outcomes
  <1>5. CountersAddUp'
    BY <1>3 DEF CountInv, CountersAddUp
  <1>6. stats["sent"] <= Cardinality(SentCmds')
    BY <1>3, <1>4 DEF CountInv
  <1> QED
    BY <1>1, <1>5, <1>6 DEF CountInv

\* The outcome of a dispatch that held the mutex.
LEMMA AnswerKeeps ==
    ASSUME CmdInv, CountInv, NEW k \in Cmds, NEW o \in Outcomes,
           cmd[k].pc \in Held, Answer(k, o)
    PROVE  CmdInv' /\ CountInv'
  <1> DEFINE x == [cmd[k] EXCEPT !.pc = o]
  <1>1. cmd[k] \in CmdRecord /\ Budget(cmd[k])
    BY DEF CmdInv
  <1>2. x \in CmdRecord /\ x.pc = o /\ x.age = cmd[k].age /\ x.left = cmd[k].left
    BY <1>1 DEF CmdRecord
  <1>3. o # "none" /\ o # "refused" /\ o \notin Open /\ o \notin Held /\ k \in OpenCmds
    BY DEF Outcomes, Open, Held, OpenCmds
  <1>4. cmd' = [cmd EXCEPT ![k] = x] /\ stats' = [stats EXCEPT ![o] = @ + 1]
    BY DEF Answer, CmdInv
  <1>5. Budget(x)
    BY <1>1, <1>2, <1>3 DEF Budget
  <1>6. PICK y \in CmdRecord : y = x
    BY <1>2
  <1> HIDE DEF x
  <1>7. CmdInv'
    BY <1>2, <1>3, <1>4, <1>5, <1>6, CommandMoves
  <1>8. /\ Cardinality(OpenCmds') = Cardinality(OpenCmds) - 1 /\ Cardinality(OpenCmds) \in Nat
        /\ Cardinality(SentCmds') >= Cardinality(SentCmds)
        /\ Cardinality(SentCmds) \in Nat /\ Cardinality(SentCmds') \in Nat
    BY <1>2, <1>3, <1>4, <1>6, OneCommandCounted
  <1>9. stats' \in [Outcomes \union {"sent"} -> Nat]
    BY <1>4 DEF CountInv
  <1>10. /\ stats["sent"] \in Nat /\ stats["infra"] \in Nat /\ stats["nominal"] \in Nat
         /\ stats["success"] \in Nat
    BY DEF CountInv, Outcomes
  <1>11. /\ stats'["sent"] = stats["sent"]
         /\ stats'["infra"] + stats'["nominal"] + stats'["success"]
              = stats["infra"] + stats["nominal"] + stats["success"] + 1
    BY <1>4, <1>10 DEF CountInv, Outcomes
  <1>12. /\ stats'["infra"] \in Nat /\ stats'["nominal"] \in Nat /\ stats'["success"] \in Nat
    BY <1>9 DEF Outcomes
  <1>13. CountersAddUp'
    BY <1>8, <1>10, <1>11, <1>12 DEF CountInv, CountersAddUp
  <1>14. stats'["sent"] <= Cardinality(SentCmds')
    BY <1>8, <1>10, <1>11 DEF CountInv
  <1> QED
    BY <1>7, <1>9, <1>13, <1>14 DEF CountInv

\* handleCommand.
LEMMA HandleKeeps ==
    ASSUME CmdInv, CountInv, NEW k \in Cmds, HandleCommand(k)
    PROVE  CmdInv' /\ CountInv'
  <1>1. cmd[k] \in CmdRecord /\ Budget(cmd[k]) /\ cmd[k].pc = "none" /\ k \notin OpenCmds
    BY DEF CmdInv, HandleCommand, OpenCmds, Open, Held
  <1>2. cmd[k].age = 0 /\ cmd[k].left = 0 /\ Timeout \in Nat
    BY <1>1, CmdsFinite DEF Budget
  <1>3. /\ stats["sent"] \in Nat /\ stats["infra"] \in Nat /\ stats["nominal"] \in Nat
        /\ stats["success"] \in Nat /\ stats \in [Outcomes \union {"sent"} -> Nat]
    BY DEF CountInv, Outcomes
  <1>4. CASE cmd' = [cmd EXCEPT ![k].pc = "refused"] /\ UNCHANGED stats
    <2> DEFINE x == [cmd[k] EXCEPT !.pc = "refused"]
    <2>1. x \in CmdRecord /\ x.pc = "refused" /\ x.left = 0
      BY <1>1, <1>2 DEF CmdRecord
    <2>2. Budget(x) /\ x.pc \notin Held
      BY <2>1 DEF Budget, Held
    <2>3. PICK y \in CmdRecord : y = x
      BY <2>1
    <2>4. cmd' = [cmd EXCEPT ![k] = x]
      BY <1>4 DEF CmdInv
    <2> HIDE DEF x
    <2> QED
      BY <1>1, <1>4, <2>1, <2>2, <2>3, <2>4, MoveUncounted
  <1>5. CASE /\ cmd' = [cmd EXCEPT ![k] = [@ EXCEPT !.pc = "waiting", !.left = Timeout]]
             /\ stats' = [stats EXCEPT !["sent"] = @ + 1]
    <2> DEFINE x == [cmd[k] EXCEPT !.pc = "waiting", !.left = Timeout]
    <2>1. x \in CmdRecord /\ x.pc = "waiting" /\ x.left = Timeout /\ x.age = 0
      <3>1. Timeout \in 0..Timeout /\ "waiting" \in Open
        BY <1>2 DEF Open
      <3> QED
        BY <1>1, <1>2, <3>1 DEF CmdRecord
    <2>2. Budget(x) /\ x.pc \notin Held /\ x.pc \in Open
      BY <1>2, <2>1 DEF Budget, Held, Open
    <2>3. PICK y \in CmdRecord : y = x
      BY <2>1
    <2>4. cmd' = [cmd EXCEPT ![k] = x]
      BY <1>5 DEF CmdInv
    <2> HIDE DEF x
    <2>5. CmdInv'
      BY <2>2, <2>3, <2>4, CommandMoves
    <2>6. /\ Cardinality(OpenCmds') = Cardinality(OpenCmds) + 1 /\ Cardinality(OpenCmds) \in Nat
          /\ Cardinality(SentCmds') = Cardinality(SentCmds) + 1 /\ Cardinality(SentCmds) \in Nat
      BY <1>1, <2>1, <2>2, <2>3, <2>4, OneCommandCounted
    <2>7. /\ stats' \in [Outcomes \union {"sent"} -> Nat] /\ stats'["sent"] = stats["sent"] + 1
          /\ stats'["infra"] = stats["infra"] /\ stats'["nominal"] = stats["nominal"]
          /\ stats'["success"] = stats["success"]
      BY <1>3, <1>5 DEF Outcomes
    <2>8. CountersAddUp'
      BY <1>3, <2>6, <2>7 DEF CountInv, CountersAddUp
    <2>9. stats'["sent"] <= Cardinality(SentCmds')
      BY <1>3, <2>6, <2>7 DEF CountInv
    <2> QED
      BY <2>5, <2>7, <2>8, <2>9 DEF CountInv
  <1>6. CASE /\ cmd' = [cmd EXCEPT ![k].pc = "nominal"]
             /\ stats' = [stats EXCEPT !["sent"] = @ + 1, !["nominal"] = @ + 1]
    <2> DEFINE x == [cmd[k] EXCEPT !.pc = "nominal"]
    <2>1. x \in CmdRecord /\ x.pc = "nominal" /\ x.left = 0
      BY <1>1, <1>2 DEF CmdRecord, Outcomes
    <2>2. Budget(x) /\ x.pc \notin Held /\ x.pc \notin Open
      BY <2>1 DEF Budget, Held, Open
    <2>3. PICK y \in CmdRecord : y = x
      BY <2>1
    <2>4. cmd' = [cmd EXCEPT ![k] = x]
      BY <1>6 DEF CmdInv
    <2> HIDE DEF x
    <2>5. CmdInv'
      BY <2>2, <2>3, <2>4, CommandMoves
    <2>6. /\ OpenCmds' = OpenCmds /\ Cardinality(OpenCmds) \in Nat
          /\ Cardinality(SentCmds') = Cardinality(SentCmds) + 1 /\ Cardinality(SentCmds) \in Nat
      BY <1>1, <2>1, <2>2, <2>3, <2>4, OneCommandCounted
    <2>7. /\ stats' \in [Outcomes \union {"sent"} -> Nat] /\ stats'["sent"] = stats["sent"] + 1
          /\ stats'["infra"] = stats["infra"] /\ stats'["nominal"] = stats["nominal"] + 1
          /\ stats'["success"] = stats["success"]
      BY <1>3, <1>6 DEF Outcomes
    <2>8. CountersAddUp'
      BY <1>3, <2>6, <2>7 DEF CountInv, CountersAddUp
    <2>9. stats'["sent"] <= Cardinality(SentCmds')
      BY <1>3, <2>6, <2>7 DEF CountInv
    <2> QED
      BY <2>5, <2>7, <2>8, <2>9 DEF CountInv
  <1> QED
    BY <1>4, <1>5, <1>6 DEF HandleCommand

\* lockVIN takes the mutex when no command of the vehicle has it.
LEMMA LockKeeps ==
    ASSUME CmdInv, CountInv, NEW k \in Cmds, accepted \in BOOLEAN,
           LockVIN(k)
    PROVE  CmdInv' /\ CountInv'
  <1> DEFINE x == [cmd[k] EXCEPT !.pc = "session", !.tok = accepted]
  <1>1. cmd[k] \in CmdRecord /\ Budget(cmd[k]) /\ cmd[k].pc \in Open
    BY DEF CmdInv, LockVIN, Open
  <1>2. /\ x \in CmdRecord /\ x.pc = "session" /\ x.left = cmd[k].left /\ x.age = cmd[k].age
    BY <1>1 DEF CmdRecord, Open, Held
  <1>3. Budget(x) /\ x.pc \in Open
    BY <1>1, <1>2 DEF Budget, Open, Held
  <1>4. PICK y \in CmdRecord : y = x
    BY <1>2
  <1>5. cmd' = [cmd EXCEPT ![k] = x] /\ stats' = stats
        /\ \A j \in Cmds : VinOf[j] = VinOf[k] => cmd[j].pc \notin Held
    BY DEF LockVIN, CmdInv
  <1> HIDE DEF x
  <1> QED
    BY <1>1, <1>3, <1>4, <1>5, MoveUncounted

\* The action is sent: the mutex is kept.
LEMMA SendsKeeps ==
    ASSUME CmdInv, CountInv, NEW k \in Cmds, cmd[k].pc = "session",
           cmd' = [cmd EXCEPT ![k].pc = "acting"], stats' = stats
    PROVE  CmdInv' /\ CountInv'
  <1> DEFINE x == [cmd[k] EXCEPT !.pc = "acting"]
  <1>1. cmd[k] \in CmdRecord /\ Budget(cmd[k]) /\ cmd[k].pc \in Held /\ cmd[k].pc \in Open
    BY DEF CmdInv, Open, Held
  <1>2. x \in CmdRecord /\ x.pc = "acting" /\ x.left = cmd[k].left /\ x.age = cmd[k].age
    BY <1>1 DEF CmdRecord, Open, Held
  <1>3. Budget(x) /\ x.pc \in Open
    BY <1>1, <1>2 DEF Budget, Open, Held
  <1>4. PICK y \in CmdRecord : y = x
    BY <1>2
  <1>5. cmd' = [cmd EXCEPT ![k] = x]
    BY DEF CmdInv
  <1> HIDE DEF x
  <1> QED
    BY <1>1, <1>3, <1>4, <1>5, MoveUncounted

LEMMA CommandKeeps ==
    ASSUME CommandsInv, NEW k \in Cmds, Command(k)
    PROVE  CommandsInv'
  <1>1. CmdInv /\ CountInv /\ RestInv /\ accepted \in BOOLEAN
    BY DEF CommandsInv, RestInv
  <1>2. "infra" \in Outcomes /\ "nominal" \in Outcomes /\ "success" \in Outcomes
        /\ "session" \in Held /\ "acting" \in Held
    BY DEF Outcomes, Held
  <1>3. VinOf[k] \in Vins
    BY DEF Vins
  <1>4. CASE HandleCommand(k)
    <2>1. RestInv'
      BY <1>1, <1>4 DEF RestInv, HandleCommand, caches
    <2> QED
      BY <1>1, <1>4, <2>1, HandleKeeps DEF CommandsInv
  <1>5. CASE LockVIN(k)
    <2>1. RestInv'
      BY <1>1, <1>5 DEF RestInv, LockVIN, caches
    <2> QED
      BY <1>1, <1>5, <2>1, LockKeeps DEF CommandsInv
  <1>6. CASE NoSession(k)
    <2>1. RestInv'
      BY <1>1, <1>6 DEF RestInv, NoSession, caches
    <2>2. CmdInv' /\ CountInv'
      BY <1>1, <1>2, <1>6, AnswerKeeps DEF NoSession
    <2> QED
      BY <2>1, <2>2 DEF CommandsInv
  <1>7. CASE Session(k)
    <2>1. RestInv'
      BY <1>1, <1>3, <1>7 DEF RestInv, Session
    <2>2. CmdInv' /\ CountInv'
      BY <1>1, <1>2, <1>7, AnswerKeeps, SendsKeeps DEF Session
    <2> QED
      BY <2>1, <2>2 DEF CommandsInv
  <1>8. CASE Act(k)
    <2>1. RestInv'
      <3>1. cacheFile' \in {sessions, cacheFile} /\ sessions' = sessions \union {VinOf[k]}
            /\ UNCHANGED <<accepted, crashes>>
        BY <1>8 DEF Act
      <3> QED
        BY <1>1, <1>3, <3>1 DEF RestInv
    <2>2. CmdInv' /\ CountInv'
      BY <1>1, <1>2, <1>8, AnswerKeeps DEF Act
    <2> QED
      BY <2>1, <2>2 DEF CommandsInv
  <1> QED
    BY <1>4, <1>5, <1>6, <1>7, <1>8 DEF Command

\* Time passes: a request ages as its context runs out.
LEMMA TickKeeps == ASSUME CommandsInv, Tick PROVE CommandsInv'
  <1> DEFINE Ticked(k) == [cmd[k] EXCEPT !.age = @ + 1, !.left = IF @ = 0 THEN 0 ELSE @ - 1]
  <1>1. cmd \in [Cmds -> CmdRecord] /\ Timeout \in Nat /\ MaxAge \in Nat
    BY CmdsFinite DEF CommandsInv, CmdInv
  <1>2. \A k \in Cmds : cmd'[k] = IF cmd[k].pc \in Open THEN Ticked(k) ELSE cmd[k]
    BY DEF Tick
  <1>3. ASSUME NEW k \in Cmds
        PROVE  cmd'[k] \in CmdRecord /\ cmd'[k].pc = cmd[k].pc /\ Budget(cmd'[k])
    <2>1. cmd[k] \in CmdRecord /\ Budget(cmd[k])
      BY <1>1 DEF CommandsInv, CmdInv
    <2>2. CASE cmd[k].pc \in Open
      <3>1. cmd'[k] = Ticked(k) /\ cmd[k].age < MaxAge /\ cmd[k].pc # "none"
        BY <1>2, <2>2 DEF Tick, Open, Held
      <3>2. cmd[k].age \in 0..MaxAge /\ cmd[k].left \in 0..Timeout
        BY <2>1 DEF CmdRecord
      <3>3. cmd[k].age + 1 \in 0..MaxAge
            /\ (IF cmd[k].left = 0 THEN 0 ELSE cmd[k].left - 1) \in 0..Timeout
        BY <1>1, <3>1, <3>2
      <3>4. Ticked(k) \in CmdRecord /\ Ticked(k).pc = cmd[k].pc /\ Ticked(k).age = cmd[k].age + 1
            /\ Ticked(k).left = IF cmd[k].left = 0 THEN 0 ELSE cmd[k].left - 1
        BY <2>1, <3>3 DEF CmdRecord
      <3> HIDE DEF Ticked
      <3>5. Budget(Ticked(k))
        BY <1>1, <2>1, <3>1, <3>2, <3>4 DEF Budget
      <3> QED
        BY <3>1, <3>4, <3>5
    <2>3. CASE cmd[k].pc \notin Open
      BY <1>2, <2>1, <2>3
    <2> QED
      BY <2>2, <2>3
  <1>4. cmd' \in [Cmds -> CmdRecord]
    <2>1. cmd' = [k \in Cmds |-> cmd'[k]]
      BY DEF Tick
    <2> QED
      BY <1>3, <2>1
  <1>5. CmdInv'
    BY <1>3, <1>4 DEF CommandsInv, CmdInv, CommandsSerialized
  <1>6. OpenCmds' = OpenCmds /\ SentCmds' = SentCmds /\ stats' = stats
    BY <1>3 DEF OpenCmds, SentCmds, Tick, Open, Held
  <1>7. CountInv'
    BY <1>6 DEF CommandsInv, CountInv, CountersAddUp
  <1>8. RestInv'
    BY DEF CommandsInv, RestInv, Tick, caches
  <1> QED
    BY <1>5, <1>7, <1>8 DEF CommandsInv

\* A restart: what was open is lost, and the counters start over.
LEMMA CrashKeeps == ASSUME CommandsInv, Crash PROVE CommandsInv'
  <1>1. cmd \in [Cmds -> CmdRecord] /\ Timeout \in Nat /\ MaxCrashes \in Nat
    BY CmdsFinite DEF CommandsInv, CmdInv
  <1>2. \A k \in Cmds :
            cmd'[k] = IF cmd[k].pc \in Open THEN [cmd[k] EXCEPT !.pc = "lost"] ELSE cmd[k]
    BY DEF Crash
  <1>3. ASSUME NEW k \in Cmds
        PROVE  /\ cmd'[k] \in CmdRecord /\ Budget(cmd'[k]) /\ cmd'[k].pc \notin Open
    <2>1. cmd[k] \in CmdRecord /\ Budget(cmd[k])
      BY <1>1 DEF CommandsInv, CmdInv
    <2>2. CASE cmd[k].pc \in Open
      <3> DEFINE x == [cmd[k] EXCEPT !.pc = "lost"]
      <3>1. x \in CmdRecord /\ x.pc = "lost" /\ x.age = cmd[k].age /\ x.left = cmd[k].left
        BY <2>1 DEF CmdRecord
      <3>2. Budget(x) /\ x.pc \notin Open
        BY <2>1, <3>1 DEF Budget, Open, Held
      <3> QED
        BY <1>2, <2>2, <3>1, <3>2
    <2>3. CASE cmd[k].pc \notin Open
      BY <1>2, <2>1, <2>3
    <2> QED
      BY <2>2, <2>3
  <1>4. cmd' \in [Cmds -> CmdRecord]
    <2>1. cmd' = [k \in Cmds |-> cmd'[k]]
      BY DEF Crash
    <2> QED
      BY <1>3, <2>1
  <1>5. CmdInv'
    <2>1. CommandsSerialized'
      BY <1>3 DEF CommandsSerialized, Open, Held
    <2> QED
      BY <1>3, <1>4, <2>1 DEF CmdInv
  <1>6. OpenCmds' = {} /\ SentCmds' \in SUBSET Cmds
    BY <1>3 DEF OpenCmds, SentCmds, Open, Held
  <1>7. Cardinality(OpenCmds') = 0 /\ Cardinality(SentCmds') \in Nat
    BY <1>6, CmdsFinite, FS_EmptySet
  <1>8. /\ stats' \in [Outcomes \union {"sent"} -> Nat] /\ stats'["sent"] = 0
        /\ stats'["infra"] = 0 /\ stats'["nominal"] = 0 /\ stats'["success"] = 0
    BY DEF Crash, Outcomes
  <1>9. CountInv'
    BY <1>7, <1>8 DEF CountInv, CountersAddUp
  <1>10. RestInv'
    BY <1>1 DEF CommandsInv, RestInv, Crash
  <1> QED
    BY <1>5, <1>9, <1>10 DEF CommandsInv

LEMMA CommandsStart == ASSUME CommandsInit PROVE CommandsInv
  <1>1. \A k \in Cmds : cmd[k] = [pc |-> "none", age |-> 0, left |-> 0, tok |-> FALSE]
    BY DEF CommandsInit
  <1>2. [pc |-> "none", age |-> 0, left |-> 0, tok |-> FALSE] \in CmdRecord
    BY CmdsFinite DEF CmdRecord
  <1>3. \A k \in Cmds : cmd[k] \in CmdRecord /\ Budget(cmd[k]) /\ cmd[k].pc = "none"
    BY <1>1, <1>2 DEF Budget
  <1>4. CmdInv
    BY <1>3 DEF CommandsInit, CmdInv, CommandsSerialized, Held
  <1>5. OpenCmds = {} /\ SentCmds = {} /\ Cardinality({}) = 0
    BY <1>3, FS_EmptySet DEF OpenCmds, SentCmds, Open, Held
  <1>6. /\ stats \in [Outcomes \union {"sent"} -> Nat] /\ stats["sent"] = 0
        /\ stats["infra"] = 0 /\ stats["nominal"] = 0 /\ stats["success"] = 0
    BY DEF CommandsInit, Outcomes
  <1>7. CountInv
    BY <1>5, <1>6 DEF CountInv, CountersAddUp
  <1>8. RestInv
    BY CmdsFinite DEF RestInv, CommandsInit
  <1> QED
    BY <1>4, <1>7, <1>8 DEF CommandsInv

LEMMA CommandsStep ==
    ASSUME CommandsInv, [CommandsNext]_commandVars PROVE CommandsInv'
  <1>1. ASSUME UNCHANGED <<cmd, stats, sessions, cacheFile, crashes>>, accepted' \in BOOLEAN
        PROVE  CommandsInv'
    <2>1. CmdInv'
      BY <1>1 DEF CommandsInv, CmdInv, CommandsSerialized
    <2>2. CountInv'
      BY <1>1 DEF CommandsInv, CountInv, CountersAddUp, OpenCmds, SentCmds
    <2>3. RestInv'
      BY <1>1 DEF CommandsInv, RestInv
    <2> QED
      BY <2>1, <2>2, <2>3 DEF CommandsInv
  <1>2. CASE UNCHANGED commandVars
    BY <1>1, <1>2 DEF commandVars, caches, CommandsInv, RestInv
  <1>3. CASE TokenChanges
    BY <1>1, <1>3 DEF TokenChanges, caches
  <1> QED
    BY <1>2, <1>3, CommandKeeps, TickKeeps, CrashKeeps DEF CommandsNext

LEMMA CommandsInvariant == CommandsSpec => []CommandsInv
  <1>1. CommandsInit => CommandsInv
    BY CommandsStart
  <1>2. CommandsInv /\ [CommandsNext]_commandVars => CommandsInv'
    BY CommandsStep
  <1> QED
    BY <1>1, <1>2, PTL DEF CommandsSpec

\* The commands' types, for any commands and timeout.
THEOREM CommandsTyped == CommandsSpec => []CommandsTypeOK
  <1>1. CommandsInv => CommandsTypeOK
    BY CommandsInvTyped
  <1> QED
    BY <1>1, CommandsInvariant, PTL

\* lockVIN serializes the commands of a vehicle, whatever their number, and whatever the
\* ones before met: at most one is between its session and its answer.
THEOREM OneCommandAtATime == CommandsSpec => []CommandsSerialized
  <1>1. CommandsInv => CommandsSerialized
    BY DEF CommandsInv, CmdInv
  <1> QED
    BY <1>1, CommandsInvariant, PTL

\* SendCommand's counters lose no command: the ones submitted since the process started
\* are answered or open.
THEOREM CountersAccountFor == CommandsSpec => []CountersAddUp
  <1>1. CommandsInv => CountersAddUp
    BY DEF CommandsInv, CountInv
  <1> QED
    BY <1>1, CommandsInvariant, PTL

\* The wait for the mutex does not end with the context, but a command that got the mutex
\* too late is not sent to the vehicle, for any timeout and any queue.
THEOREM LateCommandsDropped == CommandsSpec => LateNeverActs
  <1>1. ASSUME CommandsInv, CommandsNext, NEW k \in Cmds, cmd[k].pc # "acting", cmd'[k].pc = "acting"
        PROVE  cmd[k].age < Timeout
    <2>1. cmd \in [Cmds -> CmdRecord] /\ cmd[k] \in CmdRecord /\ Budget(cmd[k])
      BY <1>1 DEF CommandsInv, CmdInv
    <2>2. ASSUME NEW j \in Cmds, Command(j)
          PROVE  cmd[k].left > 0
      <3>1. ASSUME NEW o \in {"refused", "nominal", "infra", "success"},
                   cmd' = [cmd EXCEPT ![j].pc = o]
            PROVE  FALSE
        BY <1>1, <2>1, <3>1 DEF CmdRecord
      <3>2. CASE HandleCommand(j)
        <4>1. CASE cmd' = [cmd EXCEPT ![j] = [@ EXCEPT !.pc = "waiting", !.left = Timeout]]
          BY <1>1, <2>1, <4>1 DEF CmdRecord
        <4> QED
          BY <3>1, <3>2, <4>1 DEF HandleCommand
      <3>3. CASE LockVIN(j)
        <4>1. cmd' = [cmd EXCEPT ![j] = [@ EXCEPT !.pc = "session", !.tok = accepted]]
          BY <3>3 DEF LockVIN
        <4> QED
          BY <1>1, <2>1, <4>1 DEF CmdRecord
      <3>4. CASE NoSession(j) \/ Act(j)
        BY <3>1, <3>4 DEF NoSession, Act, Answer
      <3>5. CASE Session(j)
        <4>1. cmd' = [cmd EXCEPT ![j].pc = "acting"] /\ cmd[j].left > 0
          BY <3>1, <3>5 DEF Session, Answer
        <4>2. j = k
          BY <1>1, <2>1, <4>1 DEF CmdRecord
        <4> QED
          BY <4>1, <4>2
      <3> QED
        BY <2>2, <3>2, <3>3, <3>4, <3>5 DEF Command
    <2>3. ~Tick /\ ~TokenChanges /\ ~Crash
      <3>1. ASSUME Tick PROVE FALSE
        <4>1. cmd'[k].pc = cmd[k].pc
          BY <2>1, <3>1 DEF Tick, CmdRecord
        <4> QED
          BY <1>1, <4>1
      <3>2. ASSUME TokenChanges PROVE FALSE
        BY <1>1, <3>2 DEF TokenChanges
      <3>3. ASSUME Crash PROVE FALSE
        <4>1. cmd'[k].pc \in {"lost", cmd[k].pc}
          BY <2>1, <3>3 DEF Crash, CmdRecord
        <4> QED
          BY <1>1, <4>1
      <3> QED
        BY <3>1, <3>2, <3>3
    <2>4. cmd[k].left > 0
      BY <1>1, <2>2, <2>3 DEF CommandsNext
    <2> QED
      BY <2>1, <2>4, CmdsFinite DEF Budget, CmdRecord
  <1>2. CommandsInv /\ [CommandsNext]_commandVars =>
            [\A k \in Cmds : cmd[k].pc # "acting" /\ cmd'[k].pc = "acting"
                                => cmd[k].age < Timeout]_commandVars
    BY <1>1
  <1> QED
    BY <1>2, CommandsInvariant, PTL DEF CommandsSpec, LateNeverActs
=============================================================================
