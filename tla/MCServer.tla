------------------------------ MODULE MCServer ------------------------------
(* A GitHub write, a model stream and a plain model call the contract admits,  *)
(* and requests that are turned away, ill-formed, rejected, denied, or at      *)
(* which the parser or the field check raises, over two connections.           *)
EXTENDS AdvocateServer

CONSTANTS k1, k2, write, stream, plain, bad, off, garbled, deep, role, lost

TwoClients == {k1, k2}

AllRequests == {write, stream, plain, bad, off, garbled, deep, role, lost}
=============================================================================
