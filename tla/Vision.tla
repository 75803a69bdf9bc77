------------------------------- MODULE Vision -------------------------------
(***************************************************************************)
(* From what the network returns to the boxes that are published: which    *)
(* tensor is which and how it is laid out, the anchors above the           *)
(* threshold, non-maximum suppression, and the inverse of the letterbox.   *)
(*                                                                         *)
(* The heads: "whole", one tensor with a box per anchor; "branches", a box *)
(* and a class tensor per stride in the graph's order, perhaps with a      *)
(* third that is not read; "split", the same six in any order, as bytes    *)
(* or dequantized.  The letterbox: "fit" keeps a scale per axis (rknn,     *)
(* jetson, reCamera), "shared" has one for both (generic, hailo).          *)
(*                                                                         *)
(* A box is in half model pixels; a fraction is <<numerator, denominator>>.*)
(* The mean of a distribution over the distance bins is taken as given.    *)
(***************************************************************************)
EXTENDS Integers, Sequences, FiniteSets

CONSTANTS
  Side,             \* of the square model input
  Sources,          \* the frames' sizes, <<width, height>>
  Grids,            \* the sides of the three grids, finest first
  Classes,          \* channels of a class map
  BoxChannels,      \* channels of a box distribution
  Views,           \* what is seen in a frame: three anchors, each with its
                    \* branch, col, row and reach left, up, right, down
  Levels,           \* the class map's byte values
  Scale, Zero,      \* value = (byte - Zero) * Scale
  Conf, IouMax,     \* the two thresholds
  MaxPreNms         \* anchors that are handed to the suppression

ASSUME VisionAssumption ==
  /\ Side \in Nat \ {0} /\ Sources \subseteq (Nat \ {0}) \X (Nat \ {0})
  /\ Grids \in [1..3 -> Nat \ {0}] /\ Grids[1] > Grids[2] /\ Grids[2] > Grids[3]
  /\ \A b \in 1..3 : Grids[b] # BoxChannels
  /\ BoxChannels # Classes /\ Levels \subseteq 0..255
  /\ Views \subseteq [1..3 -> [branch : 1..3, col : Nat, row : Nat, reach : [1..4 -> Nat]]]
  /\ Scale \in (Nat \ {0}) \X (Nat \ {0}) /\ Zero \in Int
  /\ Conf \in Nat \X (Nat \ {0}) /\ IouMax \in Nat \X (Nat \ {0})
  /\ MaxPreNms \in Nat

VARIABLES
  given,            \* the frame's size, the tensors, the scored anchors
  boxes             \* what is published for it

visionVars == <<given, boxes>>

Nothing == [head |-> "none"]

VisionInit == given = Nothing /\ boxes = {}

-----------------------------------------------------------------------------
(* The letterbox.                                                          *)
AtMost(u, v) == IF u < v THEN u ELSE v
AtLeast(u, v) == IF u > v THEN u ELSE v
Clamp(v, low, high) == AtLeast(low, AtMost(v, high))

(* Python's round: to the nearest, a half to the even one.                 *)
Round(n, d) ==
  LET q == n \div d
      twice == 2 * (n % d)
  IN IF twice > d \/ (twice = d /\ (q % 2) = 1) THEN q + 1 ELSE q

LongSide(src) == AtLeast(src[1], src[2])

(* fit_geometry: the size of the frame inside the canvas, and the padding. *)
Fitted(src, axis) == AtLeast(1, Round(src[axis] * Side, LongSide(src)))
Pad(src, axis) == (Side - Fitted(src, axis)) \div 2

(* xyxy_to_frame_norm of a coordinate v on an axis: off the padding,       *)
(* divided by the scale, inside the frame, as a fraction of it.            *)
FrameNorm(src, letterbox, axis, v) ==
  LET inner == v - 2 * Pad(src, axis)
  IN IF letterbox = "fit"
     THEN <<Clamp(inner * src[axis], 0, 2 * Fitted(src, axis) * src[axis]),
            2 * Fitted(src, axis) * src[axis]>>
     ELSE <<Clamp(inner * LongSide(src), 0, 2 * Side * src[axis]),
            2 * Side * src[axis]>>

(* A box as left, top, right, bottom fractions of the frame.               *)
InFrame(box, src, letterbox) ==
  [i \in 1..4 |-> FrameNorm(src, letterbox, IF (i % 2) = 1 THEN 1 ELSE 2, box[i])]

(* What the frame's edge has cut off has no width or no height left.       *)
CutOff(f) == f[1][1] >= f[3][1] \/ f[2][1] >= f[4][1]

-----------------------------------------------------------------------------
(* Which tensor is which.  A tensor has a grid, channels, and perhaps its  *)
(* channels last; the program sees its shape.                              *)
Tensor(grid, channels, last) == [grid |-> grid, channels |-> channels, last |-> last]

Shape(t) == IF t.last THEN <<t.grid, t.grid, t.channels>>
            ELSE <<t.channels, t.grid, t.grid>>

(* _branch_layout: decided by the box tensor, the only one whose channels  *)
(* are never as many as a grid's side; the class map of its branch has the *)
(* same layout.                                                            *)
ChannelsLast(t) == Shape(t)[1] # BoxChannels /\ Shape(t)[3] = BoxChannels

(* decode_zoo_head: two or three tensors per stride, in order.             *)
ZooPairs(tensors) ==
  LET each == Len(tensors) \div 3
  IN [b \in 1..3 |->
        LET dist == tensors[(each * (b - 1)) + 1]
            cls == tensors[(each * (b - 1)) + 2]
            last == ChannelsLast(dist)
        IN [dist |-> dist, grid |-> Shape(cls)[IF last THEN 1 ELSE 2],
            misread |-> dist.last # last \/ cls.last # last
                        \/ cls.channels # Classes]]

(* group_branch_indices: tensors on one grid are a pair, larger grids      *)
(* first, and the one with the box channels is the box tensor.             *)
SplitPairs(tensors) ==
  LET grids == {tensors[i].grid : i \in DOMAIN tensors}
      nth(b) == CHOOSE g \in grids : Cardinality({h \in grids : h > g}) = b - 1
      slot(b, boxed) ==
        CHOOSE i \in DOMAIN tensors :
          tensors[i].grid = nth(b) /\ (tensors[i].channels = BoxChannels) = boxed
  IN [b \in 1..3 |->
        [dist |-> tensors[slot(b, TRUE)], grid |-> tensors[slot(b, FALSE)].grid,
         misread |-> FALSE]]

(* The box of an anchor, at the stride its branch's grid stands for.       *)
BoxOf(a, grid) ==
  LET stride == Side \div grid
      col == 2 * a.col + 1
      row == 2 * a.row + 1
  IN <<(col - 2 * a.reach[1]) * stride, (row - 2 * a.reach[2]) * stride,
       (col + 2 * a.reach[3]) * stride, (row + 2 * a.reach[4]) * stride>>

-----------------------------------------------------------------------------
(* The threshold.                                                          *)
Confident(level) ==
  (level - Zero) * Scale[1] * Conf[2] >= Conf[1] * Scale[2]

(* quantized_threshold: the lowest byte that may stand for the threshold.  *)
LowestLevel == AtLeast(0, Zero + ((Conf[1] * Scale[2]) \div (Conf[2] * Scale[1])))

(* Mutant: the bytes that pass the byte threshold are not compared again.  *)
Passing_Bytes(level, quantized) ==
  IF quantized THEN level >= LowestLevel ELSE Confident(level)

(* decode_split_head compares bytes and then the survivors exactly.        *)
Passing(level, quantized) ==
  IF quantized THEN level >= LowestLevel /\ Confident(level) ELSE Confident(level)

-----------------------------------------------------------------------------
(* Non-maximum suppression.                                                *)
Overlap(p, q) ==
  LET side(i) == AtLeast(0, AtMost(p[i + 2], q[i + 2]) - AtLeast(p[i], q[i]))
      area(r) == AtLeast(0, r[3] - r[1]) * AtLeast(0, r[4] - r[2])
      inter == side(1) * side(2)
  IN <<inter, AtLeast(1, area(p) + area(q) - inter)>>

Overlapping(p, q) ==
  Overlap(p, q)[1] * IouMax[2] > IouMax[1] * Overlap(p, q)[2]

(* nms: the best of what is left is kept and what overlaps it is dropped.  *)
(* cands is a set of [id, score, box]; the later of two equals is first.  *)
Suppressed(cands) ==
  LET first(u, v) == u.score > v.score \/ (u.score = v.score /\ u.id > v.id)
      keep[S \in SUBSET cands] ==
        IF S = {} THEN {}
        ELSE LET best == CHOOSE u \in S : \A v \in S \ {u} : first(u, v)
             IN {best} \cup keep[{v \in S \ {best} : ~Overlapping(best.box, v.box)}]
  IN keep[cands]

(* The cut before it, by score; which of two equals stays is not fixed.    *)
Cuts(cands) ==
  IF Cardinality(cands) <= MaxPreNms THEN {cands}
  ELSE {T \in SUBSET cands :
          /\ Cardinality(T) = MaxPreNms
          /\ \A u \in T, v \in cands \ T : u.score >= v.score}

(* What the frame keeps of the boxes the suppression has kept.             *)
Published(T, src, letterbox) ==
  {u \in Suppressed(T) : ~CutOff(InFrame(u.box, src, letterbox))}

-----------------------------------------------------------------------------
(* The anchors as scored boxes, when the branches are read as paired.      *)
Scored(anchors, level, grid, quantized) ==
  {[id |-> i, score |-> level[i], box |-> BoxOf(anchors[i], grid[anchors[i].branch])] :
     i \in {j \in DOMAIN anchors : Passing(level[j], quantized)}}

Take(head, letterbox, src, anchors, level, scored, T, misread) ==
  /\ given' = [head |-> head, letterbox |-> letterbox, src |-> src,
               anchors |-> anchors, level |-> level, cut |-> scored \ T,
               misread |-> misread]
  /\ boxes' = {[id |-> u.id,
                at |-> InFrame(u.box, src, letterbox)] : u \in Published(T, src, letterbox)}

(* The rows of the whole head, whichever way round it comes: there are     *)
(* more anchors than channels.                                             *)
DecodeWhole(letterbox, src, anchors, level) ==
  LET scored == Scored(anchors, level, Grids, FALSE)
  IN \E T \in IF letterbox = "fit" THEN Cuts(scored) ELSE {scored} :
       Take("whole", letterbox, src, anchors, level, scored, T, FALSE)

DecodeZoo(tensors, src, anchors, level) ==
  LET pairs == ZooPairs(tensors)
      scored == Scored(anchors, level, [b \in 1..3 |-> pairs[b].grid], FALSE)
  IN \E T \in Cuts(scored) :
       Take("branches", "fit", src, anchors, level, scored, T,
            \E b \in 1..3 : pairs[b].misread)

DecodeSplit(tensors, src, anchors, level, quantized) ==
  LET pairs == SplitPairs(tensors)
      scored == Scored(anchors, level, [b \in 1..3 |-> pairs[b].grid], quantized)
  IN \E T \in Cuts(scored) :
       Take("split", "shared", src, anchors, level, scored, T, FALSE)

(* The tensors a graph may hand back.                                      *)
ZooTensors ==
  {LET each == IF sums THEN 3 ELSE 2
       channels == <<BoxChannels, Classes, 1>>
   IN [i \in 1..(3 * each) |->
         Tensor(Grids[((i - 1) \div each) + 1], channels[((i - 1) % each) + 1], last)] :
     sums \in BOOLEAN, last \in BOOLEAN}

SplitTensors ==
  {[i \in 1..6 |->
      LET k == ((i * turn) % 7) - 1
      IN Tensor(Grids[(k \div 2) + 1], IF k % 2 = 0 THEN BoxChannels ELSE Classes, TRUE)] :
     turn \in 1..6}

VisionNext ==
  /\ given = Nothing
  /\ \E src \in Sources, anchors \in Views, level \in [1..3 -> Levels] :
       \/ \E letterbox \in {"fit", "shared"} : DecodeWhole(letterbox, src, anchors, level)
       \/ \E tensors \in ZooTensors : DecodeZoo(tensors, src, anchors, level)
       \/ \E tensors \in SplitTensors, quantized \in BOOLEAN :
            DecodeSplit(tensors, src, anchors, level, quantized)

VisionSpec == VisionInit /\ [][VisionNext]_visionVars

-----------------------------------------------------------------------------
(* What the network said, read independently of how the tensors came: the  *)
(* anchors' boxes at the stride of their branch.                           *)
TrueBox(i) == BoxOf(given.anchors[i], Grids[given.anchors[i].branch])

(* Half model pixels of the canvas that the frame covers, from its edge.   *)
Covered(i, side, axis) ==
  Clamp(TrueBox(i)[side] - 2 * Pad(given.src, axis), 0, 2 * Fitted(given.src, axis))

(* Where a fraction of the frame lies on the canvas, as the resize put it  *)
(* there, against where the box is: the same, or half a pixel off when one *)
(* scale serves both axes.                                                 *)
Aligned(i, at, side, axis) ==
  LET off == at[side][1] * 2 * Fitted(given.src, axis) - Covered(i, side, axis) * at[side][2]
      size == IF off < 0 THEN -off ELSE off
  IN size <= IF given.letterbox = "fit" THEN 0 ELSE at[side][2]

(* Every published box is an anchor that reaches the threshold, where it   *)
(* is in the frame, and no two overlap beyond the limit; and an anchor     *)
(* that reaches it and of which the frame has more than that half pixel is *)
(* published unless the cut left it out for better ones or a better one    *)
(* overlaps it - whichever order and layout the tensors come in, as bytes  *)
(* or as floats.                                                           *)
BoxesAreTrue ==
  given # Nothing =>
    LET out == {b.id : b \in boxes}
        better(i, j) == given.level[i] >= given.level[j]
        cut == {u.id : u \in given.cut}
        slack == IF given.letterbox = "fit" THEN 0 ELSE 1
        inside(i) == /\ Covered(i, 3, 1) - Covered(i, 1, 1) > slack
                     /\ Covered(i, 4, 2) - Covered(i, 2, 2) > slack
    IN
      /\ ~given.misread
      /\ \A b \in boxes :
           /\ Confident(given.level[b.id])
           /\ Aligned(b.id, b.at, 1, 1) /\ Aligned(b.id, b.at, 3, 1)
           /\ Aligned(b.id, b.at, 2, 2) /\ Aligned(b.id, b.at, 4, 2)
      /\ \A i, j \in out : i # j => ~Overlapping(TrueBox(i), TrueBox(j))
      /\ \A j \in DOMAIN given.anchors \ out :
           Confident(given.level[j]) /\ inside(j) =>
             \/ j \in cut /\ \A i \in out : better(i, j)
             \/ \E i \in DOMAIN given.anchors \ {j} :
                  /\ i \notin cut /\ better(i, j) /\ Confident(given.level[i])
                  /\ Overlapping(TrueBox(i), TrueBox(j))
=============================================================================
