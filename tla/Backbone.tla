------------------------------- MODULE Backbone -------------------------------
(***************************************************************************)
(* The geometry of the Swin3D backbone (models/aurora/model/swin3d.py and  *)
(* the one of Aurora 1.5): encoder layers that halve an image of patches,  *)
(* decoder layers that double it again and meet what the encoders left,    *)
(* and in every layer the windows that attention is confined to, laid out  *)
(* by PyTorch or by the Triton kernels of ops/triton_swin3d_layout.py.     *)
(*                                                                         *)
(* A tensor is abstracted to its shape, a token to the place it came from. *)
(***************************************************************************)
EXTENDS Integers, Sequences

CONSTANTS
    Resolutions, \* shapes of images: levels, height, width
    Window,      \* window_size
    Layers,      \* num_encoder_layers
    Stochastic   \* settings: whether noise makes the context an image too

Axes == 1 .. 3
Shapes == [Axes -> Nat \ {0}]

BackboneAssumption ==
    /\ Resolutions \subseteq Shapes
    /\ Window \in Shapes
    /\ Layers \in Nat \ {0}
    /\ Stochastic \subseteq BOOLEAN

VARIABLES
    stochastic,
    patches, \* patch_res
    layer,   \* layers done, of encoder and decoder
    res,     \* shape of the tokens
    skips,   \* shapes of what the encoder layers left for the decoder
    context, \* shape of the context, <<>> when it has no places
    saved    \* saved_cs

vars == <<stochastic, patches, layer, res, skips, context, saved>>

TypeOK ==
    /\ stochastic \in Stochastic
    /\ patches \in Resolutions
    /\ layer \in 0 .. 2 * Layers
    /\ res \in Shapes
    /\ skips \in Seq(Shapes)
    /\ context \in Shapes \cup {<<>>}
    /\ saved \in Seq(Shapes \cup {<<>>})

Init ==
    /\ stochastic \in Stochastic
    /\ patches \in {p \in Resolutions : p[1] % Window[1] = 0}
    /\ layer = 0
    /\ res = patches
    /\ skips = <<>>
    /\ context = IF stochastic THEN patches ELSE <<>>
    /\ saved = <<>>

-----------------------------------------------------------------------------
(* Places of an image                                                      *)

Plus(a, b) == [i \in Axes |-> a[i] + b[i]]
Minus(a, b) == [i \in Axes |-> a[i] - b[i]]
Times(a, b) == [i \in Axes |-> a[i] * b[i]]
Quotient(a, b) == [i \in Axes |-> a[i] \div b[i]]
Remainder(a, b) == [i \in Axes |-> a[i] % b[i]]

Volume(shape) == shape[1] * shape[2] * shape[3]
Inside(p, shape) == \A i \in Axes : p[i] \in 0 .. shape[i] - 1
Places(shape) ==
    (0 .. shape[1] - 1) \X (0 .. shape[2] - 1) \X (0 .. shape[3] - 1)

(* Places are numbered from left to right, the last axis runs fastest *)
Number(p, shape) == (p[1] * shape[2] + p[2]) * shape[3] + p[3]
Place(n, shape) ==
    << n \div (shape[2] * shape[3]), (n \div shape[3]) % shape[2], n % shape[3] >>

NoToken == <<>>

-----------------------------------------------------------------------------
(* Windows                                                                 *)

(* maybe_adjust_windows *)
Narrow(i, shape) == shape[i] <= Window[i]
WindowOf(shape) == [i \in Axes |-> IF Narrow(i, shape) THEN shape[i] ELSE Window[i]]
ShiftOf(shape, shifted) ==
    [i \in Axes |-> IF ~shifted \/ Narrow(i, shape) THEN 0 ELSE Window[i] \div 2]

(* Padding to a multiple of ws, one half of it in front *)
PadOf(shape, ws) == [i \in Axes |-> (-shape[i]) % ws[i]]
Front(pad) == [i \in Axes |-> pad[i] \div 2]
PaddedShape(shape) == Plus(shape, PadOf(shape, WindowOf(shape)))
WindowCounts(shape) == Quotient(PaddedShape(shape), WindowOf(shape))

(* torch.roll by -ss; pad_3d; window_partition_3d *)
Rolled(image, shape, ss) ==
    [p \in Places(shape) |-> image[Remainder(Plus(p, ss), shape)]]
Padded(image, shape, pad, value) ==
    [p \in Places(Plus(shape, pad)) |->
        LET q == Minus(p, Front(pad))
        IN IF Inside(q, shape) THEN image[q] ELSE value]
Partition(image, shape, ws) ==
    [k \in 0 .. Volume(Quotient(shape, ws)) - 1 |->
        [n \in 0 .. Volume(ws) - 1 |->
            image[Plus(Times(Place(k, Quotient(shape, ws)), ws), Place(n, ws))]]]

(* window_reverse_3d; crop_3d; torch.roll by ss *)
Reversed(windows, ws, shape) ==
    [p \in Places(shape) |->
        windows[Number(Quotient(p, ws), Quotient(shape, ws))]
               [Number(Remainder(p, ws), ws)]]
Cropped(image, shape, pad) ==
    [p \in Places(Minus(shape, pad)) |-> image[Plus(p, Front(pad))]]
RolledBack(image, shape, ss) ==
    [p \in Places(shape) |-> image[Remainder(Minus(p, ss), shape)]]

Image(shape) == [p \in Places(shape) |-> p]

(* The block's way from its tokens to windows, and back *)
ToWindows(shape, shifted) ==
    LET ws == WindowOf(shape)
    IN Partition(Padded(Rolled(Image(shape), shape, ShiftOf(shape, shifted)),
                        shape, PadOf(shape, ws), NoToken),
                 PaddedShape(shape), ws)
FromWindows(windows, shape, shifted) ==
    LET ws == WindowOf(shape)
    IN RolledBack(Cropped(Reversed(windows, ws, PaddedShape(shape)),
                          PaddedShape(shape), PadOf(shape, ws)),
                  shape, ShiftOf(shape, shifted))

(* Mutant: the kernel crops on the side where all of the padding would be *)
FusedMergeUncentred(windows, shape, shifted) ==
    LET ws == WindowOf(shape)
    IN [p \in Places(shape) |->
          LET q == Remainder(Plus(Minus(p, ShiftOf(shape, shifted)), shape), shape)
          IN windows[Number(Quotient(q, ws), WindowCounts(shape))]
                    [Number(Remainder(q, ws), ws)]]

(* The kernels do each in one go.  _roll_pad_partition_kernel: where the   *)
(* token of an output comes from                                           *)
FusedPartition(shape, shifted) ==
    LET ws == WindowOf(shape)
    IN [k \in 0 .. Volume(WindowCounts(shape)) - 1 |->
          [n \in 0 .. Volume(ws) - 1 |->
              LET p == Plus(Times(Place(k, WindowCounts(shape)), ws), Place(n, ws))
                  q == Minus(p, Front(PadOf(shape, ws)))
              IN IF Inside(q, shape)
                 THEN Remainder(Plus(q, ShiftOf(shape, shifted)), shape)
                 ELSE NoToken]]

(* _crop_roll_unmerge_kernel: where in the windows a place finds its token *)
FusedMerge(windows, shape, shifted) ==
    LET ws == WindowOf(shape)
    IN [p \in Places(shape) |->
          LET q == Plus(Remainder(Plus(Minus(p, ShiftOf(shape, shifted)), shape), shape),
                        Front(PadOf(shape, ws)))
          IN windows[Number(Quotient(q, ws), WindowCounts(shape))]
                    [Number(Remainder(q, ws), ws)]]

-----------------------------------------------------------------------------
(* The attention mask                                                      *)

(* The slices -ws and -ss cut an axis into; the last one that holds counts *)
SliceOf(n, length, w, s) ==
    IF n >= (IF s = 0 THEN 0 ELSE length - s) THEN 2
    ELSE IF n >= length - w THEN 1
    ELSE 0

(* Mutant: the groups of the other two slices of an axis are merged *)
FirstSlicesMerge == {<<9 * c + 3 * h, 9 * c + 3 * h + 1>> : c \in 0 .. 2, h \in 0 .. 2}

(* get_3d_merge_groups *)
MergeGroups == {<<g + 1 + 9 * c, g + 2 + 9 * c>> : g \in {0, 3, 6}, c \in 0 .. 2}

(* compute_3d_shifted_window_mask: the groups tokens may attend within, of *)
(* the rolled image, and padding as a group of its own                     *)
Groups(shape) ==
    LET ws == WindowOf(shape)
        ss == ShiftOf(shape, TRUE)
        Slice(p) == [i \in Axes |-> SliceOf(p[i], shape[i], ws[i], ss[i])]
        Counted(p) == Number(Slice(p), <<3, 3, 3>>)
        Merged(g) == IF \E m \in MergeGroups : m[1] = g
                     THEN (CHOOSE m \in MergeGroups : m[1] = g)[2]
                     ELSE g
    IN Partition(Padded([p \in Places(shape) |-> Merged(Counted(p))],
                        shape, PadOf(shape, ws), 27),
                 PaddedShape(shape), ws)

-----------------------------------------------------------------------------
(* Layers                                                                  *)

(* PatchMerging3D pads to an even image and halves it *)
Halved(shape) == <<shape[1], (shape[2] + 1) \div 2, (shape[3] + 1) \div 2>>

(* Mutant: the padding of the finer layer is taken for that of the coarser *)
PaddedOutsOneLate(all, i) ==
    IF i \in 1 .. Layers - 1
    THEN <<0, all[i + 1][2] % 2, all[i + 1][3] % 2>>
    ELSE <<0, 0, 0>>

(* get_encoder_specs, which works the shapes out ahead *)
AllRes == LET all[i \in 1 .. Layers] == IF i = 1 THEN patches ELSE Halved(all[i - 1]) IN all
PaddedOuts(all, i) ==
    IF i \in 1 .. Layers - 1
    THEN <<0, all[i][2] % 2, all[i][3] % 2>>
    ELSE <<0, 0, 0>>

Encoders == layer < Layers
(* Which of AllRes the next layer works on *)
Index == IF Encoders THEN layer + 1 ELSE 2 * Layers - layer

(* The assertions of a layer and of merging: any other shape raises *)
Accepted == Volume(res) = Volume(AllRes[Index])

EncoderLayer ==
    /\ Encoders
    /\ Accepted
    /\ layer' = layer + 1
    /\ skips' = Append(skips, res)
    /\ saved' = Append(saved, context)
    /\ IF Index < Layers
       THEN /\ res[2] > 1 /\ res[3] > 1
            /\ res' = Halved(res)
            /\ context' = IF stochastic THEN Halved(context) ELSE context
       ELSE UNCHANGED <<res, context>>
    /\ UNCHANGED <<stochastic, patches>>

(* PatchSplitting3D doubles the image and crops it to what PatchMerging    *)
(* had before it was padded                                                *)
Split(shape, crop) == Minus(<<shape[1], 2 * shape[2], 2 * shape[3]>>, crop)

DecoderLayer ==
    /\ layer \in Layers .. 2 * Layers - 1
    /\ Accepted
    /\ layer' = layer + 1
    /\ res' = IF Index > 1 THEN Split(res, PaddedOuts(AllRes, Index - 1)) ELSE res
    /\ context' = IF Index > 1 THEN saved[Index - 1] ELSE saved[Layers]
    /\ UNCHANGED <<stochastic, patches, skips, saved>>

Next == EncoderLayer \/ DecoderLayer

Spec == Init /\ [][Next]_vars

-----------------------------------------------------------------------------
(* Properties.                                                             *)

(* Whatever the height and width, odd or even: a decoder layer gets the    *)
(* image that the encoder layer of its level left, which it is added to,   *)
(* with a context that has as many places; the backbone ends with the      *)
(* shape it began with.                                                    *)
LayersMeet ==
    /\ layer >= Layers /\ layer < 2 * Layers =>
           /\ res = skips[Index]
           /\ context \in {<<>>, res}
    /\ layer = 2 * Layers => res = patches

(* triton_swin3d_layout.py:12 "numerically matches swin3d for the same ws, *)
(* ss, and res", also where the image has to be padded, which              *)
(* test_triton_swin3d.py has no case of; and both lead back: attention     *)
(* returns every token to the place it was taken from.                     *)
LayoutsAgree ==
    \A shifted \in BOOLEAN :
        LET windows == ToWindows(res, shifted)
        IN /\ FusedPartition(res, shifted) = windows
           /\ FromWindows(windows, res, shifted) = Image(res)
           /\ FusedMerge(windows, res, shifted) = Image(res)

Distance(a, b) == IF a > b THEN a - b ELSE b - a
Around(a, b, n) == IF 2 * Distance(a, b) > n THEN n - Distance(a, b) ELSE Distance(a, b)

(* Within a window of each other, from the right edge of the image to its  *)
(* left edge too, but never from the top to the bottom                     *)
Near(a, b) ==
    LET ws == WindowOf(res)
    IN /\ Distance(a[1], b[1]) < ws[1]
       /\ Distance(a[2], b[2]) < ws[2]
       /\ Around(a[3], b[3], res[3]) < ws[3]

(* swin3d.py:609 "Two patches communicate if they are in the same group":  *)
(* in a shifted block, tokens that share a window and a group are near     *)
(* each other on the globe, and padding talks to padding only; where no    *)
(* padding is needed, near tokens of a window are never kept apart.        *)
MaskFollowsTheGlobe ==
    LET windows == ToWindows(res, TRUE)
        groups == Groups(res)
    IN \A k \in DOMAIN windows : \A n, m \in DOMAIN windows[k] :
          LET a == windows[k][n]
              b == windows[k][m]
              together == groups[k][n] = groups[k][m]
          IN IF NoToken \in {a, b}
             THEN together <=> a = b
             ELSE /\ together => Near(a, b)
                  /\ Near(a, b) /\ PaddedShape(res) = res => together
=============================================================================
