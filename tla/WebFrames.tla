----------------------------- MODULE WebFrames ------------------------------
(***************************************************************************)
(* How packs come out of the frames of a web-socket connection:            *)
(* NetConnect::ReadWebPackHead up to ReadWebPackDataReady with             *)
(* GetNetPackBuffer (xlib/src/netserver/NetService.cpp) and WebSocketPack  *)
(* (WebSocketProtocol.h).  A pack is a head, which holds datasize, and a   *)
(* body.  The client cuts its stream of packs into frames as it likes; the *)
(* reader collects their payloads in total_data and cuts the packs out of  *)
(* them again.                                                             *)
(*                                                                         *)
(* A byte is a token: the bytes of pack p are <<p, 0>>, <<p, 1>> and so    *)
(* on, HeadLen of them the head; a frame's head is <<-1, length>>; and     *)
(* there are bytes that were not read, and noise, which does not have the  *)
(* flags of a pack.  The first byte of a head stands for begflag, its last *)
(* one for datasize and endflag.                                           *)
(*                                                                         *)
(* Two things make the reader lose its place: a length that leaves the     *)
(* high part of an earlier one standing, and async_read_some, which may    *)
(* return with a part of a payload.  "exact" says that neither has         *)
(* happened.                                                               *)
(*                                                                         *)
(* 65536 is a constant.  The mask is no byte of its own: a read that       *)
(* returns 0 bytes has come to the mask alone.  fin, which changes nothing *)
(* here, is left out.  NetService models closing and errors.               *)
(***************************************************************************)
EXTENDS Integers, Sequences

CONSTANTS
    Short,              \* 65536: the values of an unsigned short
    HeadLen,            \* sizeof(PackHead)
    MaxPacks, MaxBody,  \* bounds: packs sent, and the length of a body
    MaxFrames, MaxFrame \* bounds: frames sent, and the length of a payload

FramesAssumption ==
    /\ Short \in Nat \ {0} /\ HeadLen \in Nat \ {0}
    /\ {MaxPacks, MaxBody, MaxFrames, MaxFrame} \subseteq Nat

VARIABLES
    sizes,              \* the lengths of the bodies sent
    stream,             \* the client's bytes that are not in a frame yet
    noise,              \* packs sent before the noise, or -1 without noise
    frames,             \* how many frames the client has sent
    wire,               \* what is to be read
    stage,              \* the read that is under way
    low, high,          \* WebSocketPack's datalen
    total_data,
    packs,              \* the packs given to _OnGetPack
    exact               \* history: every payload so far was read with the
                        \* length of its frame, and as a whole

vars == <<sizes, stream, noise, frames, wire, stage, low, high,
          total_data, packs, exact>>

FrameHead(k) == <<-1, k>>
Unread == <<0, 0>>
Noise == <<0, 1>>

Init ==
    /\ sizes = <<>> /\ stream = <<>> /\ noise = -1 /\ frames = 0 /\ wire = <<>>
    /\ stage = "head"
    /\ low = 0 /\ high = 0
    /\ total_data = <<>> /\ packs = <<>> /\ exact = TRUE

-----------------------------------------------------------------------------
(* The client. *)
Bytes(p, n) == [i \in 1..HeadLen + n |-> <<p, i - 1>>]

SendPack(n) ==
    /\ Len(sizes) < MaxPacks
    /\ sizes' = Append(sizes, n)
    /\ stream' = stream \o Bytes(Len(sizes) + 1, n)
    /\ UNCHANGED <<noise, frames, wire, stage, low, high, total_data, packs, exact>>

(* Bytes that are no pack. *)
SendNoise ==
    /\ noise = -1
    /\ noise' = Len(sizes)
    /\ stream' = Append(stream, Noise)
    /\ UNCHANGED <<sizes, frames, wire, stage, low, high, total_data, packs, exact>>

SendFrame(k) ==
    /\ frames < MaxFrames /\ k <= Len(stream)
    /\ frames' = frames + 1
    /\ wire' = wire \o <<FrameHead(k)>> \o SubSeq(stream, 1, k)
    /\ stream' = SubSeq(stream, k + 1, Len(stream))
    /\ UNCHANGED <<sizes, noise, stage, low, high, total_data, packs, exact>>

-----------------------------------------------------------------------------
datalen == high * Short + low

(* The length in a frame's head goes to the low part of datalen when it is *)
(* short, leaving the high part of an earlier length, and to all of it     *)
(* when it takes eight bytes.                                              *)
ReadHead ==
    /\ stage = "head" /\ wire # <<>>
    /\ LET k == Head(wire)[2]
       IN  IF Head(wire) = FrameHead(k)
           THEN /\ stage' = "data"
                /\ low' = k % Short
                /\ high' = IF k < Short THEN high ELSE k \div Short
                /\ exact' = (exact /\ datalen' = k)
           ELSE stage' = "lost" /\ UNCHANGED <<low, high, exact>>
    /\ wire' = Tail(wire)
    /\ UNCHANGED <<sizes, stream, noise, frames, total_data, packs>>

(* Mutant: total_data begins anew with every frame. *)
ReadDataAnew(n) ==
    /\ stage = "data" /\ n <= datalen
    /\ total_data' = SubSeq(wire, 1, n) \o [i \in 1..datalen - n |-> Unread]
    /\ wire' = SubSeq(wire, n + 1, Len(wire))
    /\ stage' = "packs"
    /\ exact' = (exact /\ n = datalen)
    /\ UNCHANGED <<sizes, stream, noise, frames, low, high, packs>>

(* async_read_some returns with n bytes of the payload, as many as have    *)
(* come.  The rest of the buffer is taken as if it had been read, and the  *)
(* rest of the payload for the next frame.                                 *)
ReadData(n) ==
    /\ stage = "data" /\ n <= datalen
    /\ total_data' = total_data \o SubSeq(wire, 1, n) \o [i \in 1..datalen - n |-> Unread]
    /\ wire' = SubSeq(wire, n + 1, Len(wire))
    /\ stage' = "packs"
    /\ exact' = (exact /\ n = datalen)
    /\ UNCHANGED <<sizes, stream, noise, frames, low, high, packs>>

(* Where a head belongs in total_data there are the flags of one. *)
Flagged ==
    /\ total_data[1][1] > 0 /\ total_data[1][2] = 0
    /\ total_data[HeadLen][1] > 0 /\ total_data[HeadLen][2] = HeadLen - 1

Unflagged == Len(total_data) >= HeadLen /\ ~Flagged

(* NetPack stores the length of the body in an unsigned short. *)
datasize == sizes[total_data[HeadLen][1]] % Short

Whole ==
    /\ Len(total_data) >= HeadLen /\ Flagged
    /\ Len(total_data) >= HeadLen + datasize

(* Mutant: datasize is taken for the length of the whole pack. *)
GetPackWithoutHead ==
    /\ stage = "packs" /\ Whole
    /\ packs' = Append(packs, SubSeq(total_data, 1, datasize))
    /\ total_data' = SubSeq(total_data, HeadLen + datasize + 1, Len(total_data))
    /\ UNCHANGED <<sizes, stream, noise, frames, wire, stage, low, high, exact>>

(* Mutant: one pack is taken out of a frame. *)
GetPackOnce ==
    /\ stage = "packs" /\ Whole
    /\ packs' = Append(packs, SubSeq(total_data, 1, HeadLen + datasize))
    /\ total_data' = SubSeq(total_data, HeadLen + datasize + 1, Len(total_data))
    /\ stage' = "head"
    /\ UNCHANGED <<sizes, stream, noise, frames, wire, low, high, exact>>

(* GetNetPackBuffer returns 0. *)
GetPack ==
    /\ stage = "packs" /\ Whole
    /\ packs' = Append(packs, SubSeq(total_data, 1, HeadLen + datasize))
    /\ total_data' = SubSeq(total_data, HeadLen + datasize + 1, Len(total_data))
    /\ UNCHANGED <<sizes, stream, noise, frames, wire, stage, low, high, exact>>

(* It returns 2: the connection is broken. *)
Unlawful ==
    /\ stage = "packs" /\ Unflagged
    /\ stage' = "broken"
    /\ UNCHANGED <<sizes, stream, noise, frames, wire, low, high, total_data, packs,
                   exact>>

(* It returns 1, for a part of a head or of a body: the next frame. *)
NextFrame ==
    /\ stage = "packs" /\ ~Unflagged /\ ~Whole
    /\ stage' = "head"
    /\ UNCHANGED <<sizes, stream, noise, frames, wire, low, high, total_data, packs,
                   exact>>

Next ==
    \/ \E n \in 0..MaxBody : SendPack(n)
    \/ SendNoise
    \/ \E k \in 0..MaxFrame : SendFrame(k)
    \/ ReadHead \/ (\E n \in 0..Len(wire) : ReadData(n))
    \/ GetPack \/ Unlawful \/ NextFrame

Spec == Init /\ [][Next]_vars

-----------------------------------------------------------------------------
(* The packs come out as they went in, in their order, however the client  *)
(* cuts its stream into frames: a head or a part of it alone in a frame,   *)
(* packs across frames, several packs in one, empty frames.  None comes    *)
(* out that was sent after noise.                                          *)
PacksIntact ==
    /\ Len(packs) <= IF noise >= 0 THEN noise ELSE Len(sizes)
    /\ \A p \in DOMAIN packs : packs[p] = Bytes(p, sizes[p])

(* Nothing is held back: when all that was sent has been read and the      *)
(* reader waits for a frame, every pack has come out.                      *)
NoneHeldBack ==
    stage = "head" /\ wire = <<>> /\ stream = <<>> => Len(packs) = Len(sizes)

(* Only noise breaks the connection. *)
BrokenByNoise == stage \in {"broken", "lost"} => noise >= 0

(* As long as every payload came as a whole and was read with the length   *)
(* of its frame, the frames are read right: packs whole and in order, none *)
(* held back, and no lawful stream taken for noise.                        *)
FramesInv == exact => PacksIntact /\ NoneHeldBack /\ BrokenByNoise
=============================================================================
