------------------------------ MODULE Clients ------------------------------
(***************************************************************************)
(* The clients of Lotus (service/lotusclient) and of the Filecoin chain    *)
(* (lib/filclient): what they make of their settings and of the answers of *)
(* the nodes they call.  Every call ends, with an answer or at a timeout.  *)
(***************************************************************************)
EXTENDS Integers, SequencesExt

(* A multiaddress: does it name a host by DNS, the addresses the host has    *)
(* (its own one, or those its name resolves to), and is there a TCP port?    *)
Addresses == [dns: BOOLEAN, ips: {<<>>, <<"ip">>, <<"none">>, <<"none", "ip">>}, tcp: BOOLEAN]

NoAddress == [dns |-> FALSE, ips |-> <<>>, tcp |-> FALSE]  \* the market's may be left out

\* tcpAddrFromMultiAddr: a name without a usable address is no error; the
\* host stays empty, which dials the local machine.
TcpAddr(a) ==
  LET usable == SelectSeq(a.ips, LAMBDA ip : ip = "ip")
  IN  CASE ~a.tcp                        -> "error"
        [] ~a.dns /\ usable = <<>>       -> "error"
        [] a.dns /\ usable = <<>>        -> "local machine"
        [] a.tcp /\ usable # <<>>        -> "host"

NewBuilder(a) == TcpAddr(a) # "error"

\* The setting New's client works with: it is passed on in fake mode only.
FinalizeEarly(fakeMode, finalizeEarly) == fakeMode /\ finalizeEarly

(* A summary counts the sectors that prove or are gone, those in one of the  *)
(* six states between the proof and the chain that FinalizeEarly counts as   *)
(* proving, and all others.                                                  *)
CurrentSealingSectors(summary, early) ==
  LET total      == summary.proving + summary.committing + summary.other
      notSealing == summary.proving + (IF early THEN summary.committing ELSE 0)
  IN  total - notSealing

-----------------------------------------------------------------------------
(* VerifyBidder.                                                             *)

\* Resolving the key of an account, then verifying the signature with it.
VerifySignature(key, wallet) == IF key = "error" THEN "error" ELSE wallet

VerifyBidder(fakeMode, sig, provider, info, owner, worker) ==
  CASE fakeMode                                       -> "ok"
    [] ~fakeMode /\ "error" \in {sig, provider, info} -> "error"
    [] OTHER -> CASE "ok" \in {owner, worker} -> "ok"
                  [] {owner, worker} = {"error"} -> "error"
                  [] OTHER -> "invalid"
=============================================================================
