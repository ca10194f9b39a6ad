------------------------------- MODULE DataURI -------------------------------
(***************************************************************************)
(* Data URIs (lib/datauri/datauri.go): what a download makes of the answer *)
(* of the source it asks for the CAR file of a payload.                    *)
(*                                                                         *)
(* A CAR file is a header, preceded by its length as a varint, and blocks. *)
(* The header lists the roots; its length follows from their number (cids  *)
(* of version 1 with a 32-byte digest).  Only these parts of an answer     *)
(* decide what the code does with it; blocks are never looked at.          *)
(***************************************************************************)
EXTENDS Integers, Sequences

CONSTANT Cid     \* the payload cid that is asked for

Other == "another cid"

HeaderLength(n) == 17 + 41 * n              \* of a header with n roots
VarintSize(l)   == IF l < 128 THEN 1 ELSE 2 \* enough for headers of 16 KiB

(* An answer: whether the request is answered at all and with which status,  *)
(* the length prefix and the number of bytes that encode it (a varint may be *)
(* padded), the header, and where the stream ends.                           *)
Answers ==
  {a \in [cid: {"valid", "malformed"}, scheme: {"http", "ftp"},
          status: {"ok", "not found", "unreachable"},
          length: {HeaderLength(n) : n \in 0..3}, padding: 0..1,
          decodes: BOOLEAN, roots: {<<>>, <<Cid>>, <<Other>>, <<Cid, Other>>,
                                    <<Cid, Other, Other>>},
          end: {"nothing", "in prefix", "in header", "in blocks", "complete"}] :
     a.length = HeaderLength(Len(a.roots))}

-----------------------------------------------------------------------------
(* ldRead and validateCarHeader.  The prefix is read as a varint and written *)
(* back, into a buffer of one byte: PutUvarint panics when that is too small. *)

UnreadableHeader(a) == a.end \in {"nothing", "in prefix", "in header"}
Panics(a)           == ~UnreadableHeader(a) /\ VarintSize(a.length) > 1

MutantHeaderError(a) ==              \* accepts every file that has the root
  IF UnreadableHeader(a) THEN "unreadable header"
  ELSE IF Panics(a) THEN "panic"
  ELSE IF ~a.decodes THEN "undecodable header"
  ELSE IF \A i \in DOMAIN a.roots : a.roots[i] # Cid THEN "invalid car file"
  ELSE "none"

HeaderError(a) ==
  IF UnreadableHeader(a) THEN "unreadable header"
  ELSE IF Panics(a) THEN "panic"
  ELSE IF ~a.decodes THEN "undecodable header"
  ELSE IF a.roots # <<Cid>> THEN "invalid car file"
  ELSE "none"

-----------------------------------------------------------------------------
NewURIError(a) ==
  IF a.cid = "malformed" THEN "malformed cid"
  ELSE IF a.scheme # "http" THEN "scheme not supported"
  ELSE "none"

RequestError(a) ==
  CASE a.status = "unreachable" -> "request failed"
    [] a.status = "not found"   -> "car file unavailable"
    [] a.status = "ok"          -> "none"

\* Validate: asks for the header only.
ValidateError(a) ==
  IF RequestError(a) # "none" THEN RequestError(a) ELSE HeaderError(a)

MutantWriteError(a) == ValidateError(a)    \* the error of the copy is dropped

\* Write: the same checks, then the stream is copied until it ends.
WriteError(a) ==
  IF ValidateError(a) # "none" THEN ValidateError(a)
  ELSE IF a.end # "complete" THEN "copy failed"
  ELSE "none"

\* The bytes of the length prefix in the file that Write leaves.
PrefixWritten(a) == 1

\* Whether what is left in the file is what the source sent.
SameBytes(a) == PrefixWritten(a) = VarintSize(a.length) + a.padding

\* The two errors of NewURI and Write that the HTTP API blames on the request.
BadRequest(e) == e \in {"scheme not supported", "car file unavailable", "invalid car file"}
=============================================================================
