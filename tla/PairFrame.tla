------------------------------ MODULE PairFrame ------------------------------
(***************************************************************************)
(* The bytes of one frame of the point cloud: what pack_frame() of          *)
(* d4rt_backend/live.py lays end to end, and where decodeFrame() of         *)
(* useLiveCloudStream.ts looks for it.  The two are written apart, in two   *)
(* languages, by offsets counted by hand.                                   *)
(***************************************************************************)
EXTENDS Integers, Sequences

Field(n, w) == [name |-> n, bytes |-> w]

-----------------------------------------------------------------------------
(* The packer: fields in the order of the struct, without padding ("<").    *)
HEADER_STRUCT ==
  << Field("index", 4), Field("gpuMs", 4), Field("radius", 4), Field("numPoints", 4),
     Field("cameraX", 4), Field("cameraY", 4), Field("cameraZ", 4), Field("pointScale", 4),
     Field("at", 4), Field("numBlobs", 4) >>

BLOB_STRUCT ==
  << Field("id", 4), Field("kind", 1), Field("flags", 1), Field("age", 2), Field("x", 4), Field("z", 4),
     Field("vx", 4), Field("vz", 4), Field("hx", 4), Field("hz", 4),
     Field("length", 4), Field("width", 4), Field("height", 4) >>

(* n points of three int16, three colours and a class each, b boxes.        *)
pack_frame(n, b) ==
  << Field("header", 40), Field("quantised", n * 3 * 2), Field("rgb", n * 3), Field("labels", n),
     Field("blobs", b * 44) >>

FrameLength(n, b) == 40 + n * 3 * 2 + n * 3 + n + b * 44

-----------------------------------------------------------------------------
(* The reader: a place and a width for each field.                          *)
HEADER_BYTES == 40
BLOB_BYTES == 44
Span(o, w) == [offset |-> o, bytes |-> w]

HeaderReads ==
  [index |-> Span(0, 4), gpuMs |-> Span(4, 4), radius |-> Span(8, 4), numPoints |-> Span(12, 4),
   cameraX |-> Span(16, 4), cameraY |-> Span(20, 4), cameraZ |-> Span(24, 4), pointScale |-> Span(28, 4),
   at |-> Span(32, 4), numBlobs |-> Span(36, 4)]

BlobReads ==
  [id |-> Span(0, 4), kind |-> Span(4, 1), flags |-> Span(5, 1), age |-> Span(6, 2), x |-> Span(8, 4), z |-> Span(12, 4),
   vx |-> Span(16, 4), vz |-> Span(20, 4), hx |-> Span(24, 4), hz |-> Span(28, 4),
   length |-> Span(32, 4), width |-> Span(36, 4), height |-> Span(40, 4)]

body(n) == HEADER_BYTES + n * 3 * 2 + n * 3 + n
BodyReads(n, b) ==
  [header |-> Span(0, HEADER_BYTES), quantised |-> Span(HEADER_BYTES, n * 3 * 2), rgb |-> Span(HEADER_BYTES + n * 6, n * 3),
   labels |-> Span(HEADER_BYTES + n * 9, n), blobs |-> Span(body(n), b * BLOB_BYTES)]

(* A buffer of k bytes whose header says n and b is decoded; else null, and *)
(* the view keeps the frame it has.                                         *)
decodeFrame(k, n, b) == k >= HEADER_BYTES /\ k = body(n) + b * BLOB_BYTES

-----------------------------------------------------------------------------
(* Every field is read where and as wide as it was laid, and what was laid  *)
(* is read to the last byte.                                                *)
ReadsAsLaid(laid, reads, size) ==
  /\ \A i \in 1..Len(laid) : reads[laid[i].name].bytes = laid[i].bytes
  /\ reads[laid[1].name].offset = 0
  /\ \A i \in 1..(Len(laid) - 1) :
       reads[laid[i + 1].name].offset = reads[laid[i].name].offset + laid[i].bytes
  /\ reads[laid[Len(laid)].name].offset + laid[Len(laid)].bytes = size

(* A frame of n points and b boxes is read back as it was packed; its       *)
(* points start where an Int16Array may; and cut short anywhere it is not   *)
(* taken for a frame (live.py:21-23, :95-120; useLiveCloudStream.ts:107).   *)
FrameIsRead(n, b) ==
  /\ ReadsAsLaid(HEADER_STRUCT, HeaderReads, HEADER_BYTES)
  /\ ReadsAsLaid(BLOB_STRUCT, BlobReads, BLOB_BYTES)
  /\ ReadsAsLaid(pack_frame(n, b), BodyReads(n, b), FrameLength(n, b))
  /\ HEADER_BYTES % 2 = 0
  /\ decodeFrame(FrameLength(n, b), n, b)
  /\ \A k \in 0..(FrameLength(n, b) - 1) : ~decodeFrame(k, n, b)
=============================================================================
