-------------------------------- MODULE Wire --------------------------------
(* What the four protocols put on the screen and what reading it back takes: *)
(* common/transport and common/ecc_rs.py. Bytes are values; damage is a      *)
(* count, of spoilt copies of a bit or of spoilt bytes in a block, and a     *)
(* check sum accepts exactly what it was computed from.                      *)
EXTENDS Integers, FiniteSets

CONSTANT None

Protocols == {"basic", "compact", "gray4", "layered"}
EccLevels == {"L", "M", "Q", "H"}
Rep(ecc) == [L |-> 1, M |-> 2, Q |-> 3, H |-> 4][ecc]

Sync == 0
Data == 1
End == 2
HeaderSize == 42

\* Repetition outvotes the spoilt copies when they are the minority: a tie is
\* read as one, and a bit of either value is among the bits that were hit.
VoteHolds(spoilt, rep) == 2 * spoilt < rep
\* The same for symbols of two bits: the spoilt copies may agree on a value
\* below the painted one, which wins a tie.
SymbolVoteHolds(spoilt, rep) == 2 * spoilt < rep

-----------------------------------------------------------------------------
(* The header of a frame and the payload its check sum covers.               *)

MakeHeader(frame) ==
    [type |-> frame.type, session |-> frame.session, epoch |-> frame.epoch,
     id |-> frame.id, chunk |-> frame.chunk, length |-> frame.payload.size,
     check |-> frame.payload]

\* A defect: the length is checked and the check sum is not.
PayloadAcceptedByLength(header, payload) ==
    /\ payload # None
    /\ payload.size = header.length

PayloadAccepted(header, payload) ==
    /\ payload # None
    /\ payload.size = header.length
    /\ payload = header.check

FormatInfo(type, mask, ecc) == [type |-> type, mask |-> mask, ecc |-> ecc]

-----------------------------------------------------------------------------
(* The coded envelope. A payload is its size, whether its first bytes are    *)
(* those of the magic (all of them, or as many as there are), the fields     *)
(* read at the envelope's places, and what follows.                          *)

Overhead == 20
EnvelopeVersion == 2
Schemes == {1, 2}
Empty == [size |-> 0, magic |-> TRUE, fields |-> None, rest |-> None]

EncodeCodedPayload(unit) ==
    [size |-> Overhead + unit.size, magic |-> TRUE,
     fields |-> [version |-> EnvelopeVersion, scheme |-> unit.scheme,
                 equation |-> unit.equation, seed |-> unit.seed, degree |-> unit.degree],
     rest |-> unit.payload]

Malformed(payload) ==
    /\ payload.magic
    /\ \/ payload.size <= Overhead
       \/ payload.fields.version # EnvelopeVersion
       \/ payload.fields.scheme \notin Schemes
       \/ payload.fields.degree <= 0

\* The manifest is chunk 0; the ids of the other control items are the last but
\* one of an unsigned word, written here as the signed ones they stand for.
ControlChunks == {0, -2, -3, -4}

\* The information unit a decoded frame carries.
TransmissionUnit(header, payload) ==
    IF header.type # Data \/ header.chunk \in ControlChunks THEN [kind |-> "none"]
    ELSE IF Malformed(payload) THEN [kind |-> "invalid"]
    ELSE IF payload.magic
         THEN [kind |-> "coded", session |-> header.session,
               equation |-> payload.fields.equation, seed |-> payload.fields.seed,
               degree |-> payload.fields.degree, scheme |-> payload.fields.scheme,
               size |-> payload.size - Overhead, payload |-> payload.rest]
         ELSE [kind |-> "systematic", session |-> header.session, index |-> header.chunk,
               size |-> payload.size, payload |-> payload]

ControlKind(header) ==
    IF header.type = Data /\ header.chunk \in ControlChunks THEN header.chunk ELSE None

DecodedFrame(header, payload) ==
    [header |-> header, payload |-> payload, control |-> ControlKind(header),
     unit |-> TransmissionUnit(header, payload)]

-----------------------------------------------------------------------------
(* Layered: Reed-Solomon, the bootstrap of the control band, the body.       *)

RsBlock == 255
BootstrapNsym == 15
BootstrapBytes == 10
BodyOverhead == 24
BodyNsym(profile) == [dense |-> 8, robust |-> 16][profile]

RsEncodedSize(nsym, raw) ==
    LET full == raw \div (RsBlock - nsym)
        rest == raw % (RsBlock - nsym)
    IN  full * RsBlock + (IF rest > 0 THEN rest + nsym ELSE 0)

\* A block with nsym check bytes corrects half as many spoilt ones.
RsDecodes(nsym, spoilt) == 2 * spoilt <= nsym

ShortTag(session) == session % 65536

Bootstrap(frame, profile, mask) ==
    [type |-> frame.type, tag |-> ShortTag(frame.session), profile |-> profile,
     length |-> frame.payload.size, mask |-> mask]

BodyOf(frame) ==
    [chunk |-> frame.chunk, epoch |-> frame.epoch, id |-> frame.id, payload |-> frame.payload]

\* The CRC trailer is looked for where the bootstrap's length puts it.
BodyAccepted(bootstrap, body) == body # None /\ body.payload.size = bootstrap.length

LayeredHeader(bootstrap, body) ==
    [type |-> bootstrap.type, session |-> bootstrap.tag, epoch |-> body.epoch, id |-> body.id,
     chunk |-> body.chunk, length |-> bootstrap.length, check |-> body.payload]

BareHeader(bootstrap) ==
    [type |-> bootstrap.type, session |-> bootstrap.tag, epoch |-> 0, id |-> 0, chunk |-> 0,
     length |-> 0, check |-> Empty]
=============================================================================
