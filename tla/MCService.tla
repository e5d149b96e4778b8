----------------------------- MODULE MCService -----------------------------
(* TLC instance: a behaviour is about the tasks of the daemon, about one     *)
(* exchange, or about the bytes of one connection; the three share no state. *)
(*                                                                           *)
(* Daemon: up to three connections at a time, one of which may be slow to    *)
(* read its replies, two request ids, two SIGTERMs, and clients that close   *)
(* their connections.  Exchange: every command line and any program, against *)
(* the daemon or another program.  Bytes: frames of up to two bytes in       *)
(* streams of up to six, read in pieces of up to four, so that a frame can   *)
(* outgrow the limit in one piece or over several, and a piece can hold      *)
(* several frames.                                                           *)
EXTENDS Daemon, Exchange, NdjsonDecoder

VARIABLE component   \* what the behaviour is about

mcVars == <<vars, exchangeVars, decoderVars, component>>

MCInit ==
  /\ Init /\ ExchangeInit /\ DecoderInit
  /\ component \in {"daemon", "exchange", "bytes"}

MCNext ==
  \/ component = "daemon" /\ Next /\ UNCHANGED <<exchangeVars, decoderVars, component>>
  \/ component = "exchange" /\ ExchangeNext /\ UNCHANGED <<vars, decoderVars, component>>
  \/ component = "bytes" /\ DecoderNext /\ UNCHANGED <<vars, exchangeVars, component>>

MCSpec ==
  /\ MCInit /\ [][MCNext]_mcVars
  /\ DaemonFairness /\ ClosingClients
  /\ WF_exchangeVars(ClientStep)
=============================================================================
