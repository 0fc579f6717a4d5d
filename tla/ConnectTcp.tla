----------------------------- MODULE ConnectTcp -----------------------------
(***************************************************************************)
(* connect_tcp(): the addresses of a host are tried one after the other,   *)
(* each in a task of its own, the next one after a delay or the end of the *)
(* one before.  The first stream wins and cancels the rest; the caller may *)
(* be cancelled at any time.                                               *)
(***************************************************************************)
EXTENDS Naturals, Sequences, Functions

CONSTANTS MaxAddresses   \* bound: the addresses of the host

VARIABLES
  families,   \* of each address, in the order of getaddrinfo()
  targets,    \* target_addrs, as positions in families
  attempts,   \* where the task of each target is, and what became of its stream
  caller,     \* where the caller is, and at which target
  winner,     \* the target of connected_stream, or 0
  cancelled   \* the group and the caller's own scope

connectVars == <<families, targets, attempts, caller, winner, cancelled>>

NoAttempt == [place |-> "none", stream |-> "none", event |-> FALSE]
Target == 1..Len(families)

ConnectInit ==
  /\ families \in UNION {[1..n -> {"v4", "v6"}] : n \in 1..MaxAddresses}
  /\ targets = <<>>
  /\ attempts = [i \in DOMAIN families |-> NoAttempt]
  /\ caller = [place |-> "resolving", at |-> 1, tls |-> FALSE]
  /\ winner = 0
  /\ cancelled = [group |-> FALSE, caller |-> FALSE]

-----------------------------------------------------------------------------
\* A mutant: an IPv4 address is moved up whatever came before.
InsertedEarly(list, i) ==
  CASE families[i] = "v6" /\ ~list.v6 -> [list EXCEPT !.v6 = TRUE, !.order = <<i>> \o @]
    [] families[i] = "v4" /\ ~list.v4 -> [list EXCEPT !.v4 = TRUE, !.order = <<i>> \o @]
    [] OTHER -> [list EXCEPT !.order = Append(@, i)]

\* The first IPv6 address goes to the front, and then an IPv4 address behind it.
Inserted(list, i) ==
  CASE families[i] = "v6" /\ ~list.v6 -> [list EXCEPT !.v6 = TRUE, !.order = <<i>> \o @]
    [] families[i] = "v4" /\ ~list.v4 /\ list.v6 ->
         [list EXCEPT !.v4 = TRUE, !.order = <<Head(@), i>> \o Tail(@)]
    [] OTHER -> [list EXCEPT !.order = Append(@, i)]

\* The list after the first n addresses
Lists[n \in 0..Len(families)] ==
  IF n = 0 THEN [v6 |-> FALSE, v4 |-> FALSE, order |-> <<>>] ELSE Inserted(Lists[n - 1], n)

Resolve ==
  /\ caller.place = "resolving"
  /\ targets' = Lists[Len(families)].order
  /\ \E tls \in BOOLEAN : caller' = [caller EXCEPT !.place = "spawning", !.tls = tls]
  /\ UNCHANGED <<families, attempts, winner, cancelled>>

\* start_soon(try_connect), and the wait for its event; once all are started, the
\* end of the block.
Spawn ==
  /\ caller.place = "spawning"
  /\ IF caller.at \in Target
     THEN /\ attempts' = [attempts EXCEPT ![caller.at].place = "connecting"]
          /\ caller' = [caller EXCEPT !.place = "waiting"]
     ELSE caller' = [caller EXCEPT !.place = "joining"] /\ UNCHANGED attempts
  /\ UNCHANGED <<families, targets, winner, cancelled>>

\* The wait ends with the event, with the delay, or with a cancellation, which
\* ends the block.
WaitOver ==
  /\ caller.place = "waiting"
  /\ caller' = IF cancelled.group \/ cancelled.caller THEN [caller EXCEPT !.place = "joining"]
               ELSE [caller EXCEPT !.place = "spawning", !.at = @ + 1]
  /\ UNCHANGED <<families, targets, attempts, winner, cancelled>>

\* The event was set before the group was cancelled: the caller is not told.
WaitOverUntold ==
  /\ caller.place = "waiting" /\ attempts[caller.at].event
  /\ cancelled.group /\ ~cancelled.caller
  /\ caller' = [caller EXCEPT !.place = "spawning", !.at = @ + 1]
  /\ UNCHANGED <<families, targets, attempts, winner, cancelled>>

-----------------------------------------------------------------------------
(* try_connect() *)

\* The connection is made or refused; the task is not stepped yet.
Answered(i) ==
  /\ attempts[i].place = "connecting"
  /\ \E answer \in {"accepted", "refused"} : attempts' = [attempts EXCEPT ![i].place = answer]
  /\ UNCHANGED <<families, targets, caller, winner, cancelled>>

\* What a cancellation of the group or the caller does to those that still connect
Cut(as) ==
  [i \in DOMAIN as |-> IF as[i].place = "connecting" THEN [as[i] EXCEPT !.place = "cut"]
                       ELSE as[i]]

\* A mutant: the last stream is kept.
LastWins == winner = 0 \/ cancelled.group
FirstWins == winner = 0

\* The first stream is kept and cancels the group.  A later one is closed, under
\* the cancellation: close() is called, abort() is not.
TryConnectEnds(i) ==
  /\ attempts[i].place \in {"accepted", "refused", "cut"}
  /\ LET over(stream) == [attempts EXCEPT ![i] = [place |-> "over", stream |-> stream,
                                                  event |-> TRUE]]
     IN IF attempts[i].place = "accepted"
        THEN IF FirstWins
             THEN /\ winner' = i
                  /\ cancelled' = [cancelled EXCEPT !.group = TRUE]
                  /\ attempts' = Cut(over("open"))
             ELSE attempts' = over("closed") /\ UNCHANGED <<winner, cancelled>>
        ELSE /\ attempts' = over(IF attempts[i].place = "refused" THEN "refused" ELSE "none")
             /\ UNCHANGED <<winner, cancelled>>
  /\ UNCHANGED <<families, targets, caller>>

\* An attempt that is spawned into a cancelled group is cancelled, too.
CutLate(i) ==
  /\ attempts[i].place = "connecting" /\ (cancelled.group \/ cancelled.caller)
  /\ attempts' = Cut(attempts)
  /\ UNCHANGED <<families, targets, caller, winner, cancelled>>

CancelCaller ==
  /\ ~cancelled.caller /\ caller.place \in {"spawning", "waiting", "joining"}
  /\ cancelled' = [cancelled EXCEPT !.caller = TRUE]
  /\ attempts' = Cut(attempts)
  /\ UNCHANGED <<families, targets, caller, winner>>

-----------------------------------------------------------------------------
AllOver == \A i \in Target : attempts[i].place \in {"none", "over"}

\* The group is left; a cancellation of the caller goes on from there, and takes
\* the stream that was kept with it.
Joined ==
  /\ caller.place = "joining" /\ AllOver
  /\ caller' = [caller EXCEPT !.place =
                  IF cancelled.caller THEN "cancelled"
                  ELSE IF winner = 0 THEN "failed"
                  ELSE IF caller.tls THEN "handshake" ELSE "returned"]
  /\ UNCHANGED <<families, targets, attempts, winner, cancelled>>

\* TLSStream.wrap(); when it fails or is cancelled, the stream is closed forcefully.
HandshakeOver ==
  /\ caller.place = "handshake"
  /\ \/ caller' = [caller EXCEPT !.place = "returned"] /\ UNCHANGED attempts
     \/ /\ caller' = [caller EXCEPT !.place = "raised"]
        /\ attempts' = [attempts EXCEPT ![winner].stream = "closed"]
  /\ UNCHANGED <<families, targets, winner, cancelled>>

ConnectNext ==
  \/ Resolve \/ Spawn \/ WaitOver \/ WaitOverUntold \/ CancelCaller \/ Joined
  \/ HandshakeOver
  \/ \E i \in Target : Answered(i) \/ TryConnectEnds(i) \/ CutLate(i)

-----------------------------------------------------------------------------
\* target_addrs has every address once; the first one is an IPv6 address and the
\* second one an IPv4 address, if there are any.
TargetsInterleaved ==
  caller.place # "resolving" =>
    /\ Len(targets) = Len(families) /\ IsInjective(targets)
    /\ (\E i \in Target : families[i] = "v6") => families[targets[1]] = "v6"
    /\ (\E i \in Target : families[i] = "v6") /\ (\E i \in Target : families[i] = "v4")
         => families[targets[1]] = "v6" /\ families[targets[2]] = "v4"

\* connect_tcp() leaves one stream open at most, the one that it returns, however
\* many attempts succeed before the losers are cancelled; only the cancellation of
\* the caller itself loses a stream.  It fails only after every address has
\* refused.
OneStream ==
  /\ caller.place \in {"returned", "failed", "raised"} =>
       \A i \in Target : attempts[i].stream = "open" <=> caller.place = "returned" /\ i = winner
  /\ caller.place = "cancelled" => \A i \in Target : attempts[i].stream = "open" => i = winner
  /\ caller.place = "failed" => \A i \in Target : attempts[i].stream = "refused"
=============================================================================
