------------------------------ MODULE Options ------------------------------
(***************************************************************************)
(* What becomes of the command line: what main refuses, which server a     *)
(* thread runs, what that server speaks, and the io_uring it asks for.     *)
(*                                                                         *)
(* A command line o has the runtime, the set `asks' of the options given,  *)
(* the set `faults' of the values that main cannot use, --meter, and       *)
(* --uring-entries.                                                        *)
(***************************************************************************)
EXTENDS Integers

CONSTANTS
  UintBits,      \* width of the u32 in which ring sizes are computed
  KernelEntries, \* the kernel's limit on a submission queue
  MonoioEntries  \* the submission queue monoio makes unless told otherwise

ASSUME WidthAssumption ==
  /\ UintBits \in Nat \ {0}
  /\ KernelEntries \in Nat \ {0} /\ MonoioEntries \in Nat \ {0}

Runtimes == {"tokio", "smol", "tokio_uring", "monoio", "compio", "glommio"}
Asks   == {"http2", "cert", "key", "mcp", "sse", "bodyDelay"}
Faults == {"address", "body", "status", "pem", "endpoint"}

IsOptions(o) ==
  /\ o.runtime \in Runtimes
  /\ o.asks \subseteq Asks /\ o.faults \subseteq Faults
  /\ o.meter \in BOOLEAN
  /\ o.entries \in 0..(2^UintBits - 1)
-----------------------------------------------------------------------------
(***************************************************************************)
(* main returns an error before any thread starts: for a value it cannot   *)
(* use, for half of a pair, and for what a runtime does not support.       *)
(***************************************************************************)
Refused(o) ==
  \/ o.faults \cap {"address", "body", "status"} # {}
  \/ o.asks \cap {"cert", "key"} \in {{"cert"}, {"key"}}
  \/ {"cert", "key"} \subseteq o.asks /\ "pem" \in o.faults
  \/ "sse" \in o.asks /\ "mcp" \notin o.asks
  \/ "mcp" \in o.asks /\ ("endpoint" \in o.faults \/ o.runtime # "tokio")
  \/ "http2" \in o.asks /\ o.runtime # "tokio"

(***************************************************************************)
(* run_thread: --mcp-everything has a server of its own.  Three servers    *)
(* are built on hyper, of which two look at the TLS configuration; the     *)
(* handlers of the others are passed http2 = false.                        *)
(***************************************************************************)
Server(o) == IF "mcp" \in o.asks THEN "mcp" ELSE o.runtime
OnHyper(o) == Server(o) \in {"tokio", "smol", "mcp"}
UsesTls(o) == {"cert", "key"} \subseteq o.asks /\ Server(o) \in {"tokio", "mcp"}
Protocol(o) == IF "http2" \in o.asks /\ OnHyper(o) THEN "h2" ELSE "http/1.1"

(***************************************************************************)
(* smol's service makes the body's timer with tokio's sleep, outside of a  *)
(* tokio runtime.                                                          *)
(***************************************************************************)
SleepPanics(o) == o.runtime = "smol" /\ "bodyDelay" \in o.asks
-----------------------------------------------------------------------------
(***************************************************************************)
(* A client: it speaks TLS or not, and offers these protocols, one if it   *)
(* does not negotiate.                                                     *)
(***************************************************************************)
ClientKinds == [tls : BOOLEAN, offers : SUBSET {"h2", "http/1.1"}]

(* Mutant of AlpnProtocols: the protocol that was asked for comes last.    *)
AlpnHttp2Last(o) == IF "http2" \in o.asks THEN <<"http/1.1", "h2">> ELSE <<"http/1.1">>

(***************************************************************************)
(* What load_server_config lets a client negotiate, preferred first.       *)
(***************************************************************************)
AlpnProtocols(o) == IF "http2" \in o.asks THEN <<"h2", "http/1.1">> ELSE <<"http/1.1">>

(***************************************************************************)
(* rustls takes the first of its protocols that the client offers, and     *)
(* refuses a client that offers only others; one that offers none at all   *)
(* has negotiated nothing, and speaks HTTP/1.1.  Without TLS the client    *)
(* speaks what it knows.                                                   *)
(***************************************************************************)
Negotiable(o, k) == {i \in DOMAIN AlpnProtocols(o) : AlpnProtocols(o)[i] \in k.offers}

Spoken(o, k) ==
  CASE ~k.tls -> CHOOSE p \in k.offers : TRUE
    [] k.tls /\ k.offers = {} -> "http/1.1"
    [] k.tls /\ k.offers # {} /\ Negotiable(o, k) = {} -> "none"
    [] OTHER -> AlpnProtocols(o)[CHOOSE i \in Negotiable(o, k) :
                                   \A j \in Negotiable(o, k) : i <= j]

(***************************************************************************)
(* serve_http after the handshake: a protocol it does not speak is an      *)
(* error that ends the connection.  A pipelined handler takes it for an    *)
(* incomplete request, and waits.                                          *)
(***************************************************************************)
Session(o, k) ==
  IF k.tls = UsesTls(o) /\ Spoken(o, k) = Protocol(o) THEN "served"
  ELSE IF OnHyper(o) THEN "failed" ELSE "ignored"
-----------------------------------------------------------------------------
(***************************************************************************)
(* u32::next_power_of_two without overflow checks: 0 beyond the last one.  *)
(***************************************************************************)
NextPowerOfTwo(n) ==
  IF n > 2^(UintBits - 1) THEN 0
  ELSE 2^(CHOOSE k \in 0..(UintBits - 1) :
            2^k >= n /\ \A j \in 0..(k - 1) : 2^j < n)

UringRuntimes == {"tokio_uring", "monoio", "compio", "glommio"}

(***************************************************************************)
(* configure_uring and the builders: the submission queue asked for; the   *)
(* completion queue, for the two runtimes that set it, is twice that, and  *)
(* else the kernel's choice.  Nobody tells monoio the size of the first.   *)
(***************************************************************************)
SqEntries(o) == IF o.runtime = "monoio" THEN MonoioEntries ELSE NextPowerOfTwo(o.entries)

CqEntries(o) ==
  IF o.runtime \in {"tokio_uring", "monoio"}
    THEN (NextPowerOfTwo(o.entries) * 2) % 2^UintBits
    ELSE 2 * SqEntries(o)

(***************************************************************************)
(* io_uring_setup.                                                         *)
(***************************************************************************)
RingGranted(o) ==
  /\ SqEntries(o) \in 1..KernelEntries
  /\ CqEntries(o) \in SqEntries(o)..(2 * KernelEntries)
=============================================================================
