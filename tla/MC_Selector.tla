----------------------------- MODULE MC_Selector -----------------------------
(***************************************************************************)
(* Instances of Selector for TLC: one value of every shape _make tells     *)
(* apart, with the shape predicates the Python object really satisfies     *)
(* (a Frame, a numpy array and a range are also iterable), against frames  *)
(* of 0 to 3 rows.                                                          *)
(***************************************************************************)
EXTENDS Selector

MCNA == -100

NoCol == [ncols |-> 0, stype |-> "int", vals |-> << >>]
V(p, a, b, s, c, d, dt) ==
  [preds |-> p, a |-> a, b |-> b, s |-> s, col |-> c, dims |-> d, dtype |-> dt]
Scalar(p, a) == V(p, a, 0, 0, NoCol, << >>, "int64")
SliceV(p, a, b, s) == V(p, a, b, s, NoCol, << >>, "int64")
FrameV(n, st, vs) == V({"frame", "iterable"}, 0, 0, 0,
                       [ncols |-> n, stype |-> st, vals |-> vs], << >>, "int64")
ExprV(st) == V({"expr"}, 0, 0, 0, [NoCol EXCEPT !.stype = st], << >>, "int64")
ArrayV(d, dt, vs) == V({"nparray", "iterable"}, 0, 0, 0,
                       [NoCol EXCEPT !.vals = vs], d, dt)
RangeV(a, b, s) == V({"range", "iterable"}, a, b, s, NoCol, << >>, "int64")

MCValues ==
  { SliceV({"slice", "trivial", "numeric"}, MCNA, MCNA, MCNA),
    SliceV({"slice", "numeric"}, 1, 3, MCNA),
    SliceV({"slice", "numeric"}, MCNA, MCNA, -1),
    SliceV({"slice", "numeric"}, -2, MCNA, MCNA),
    SliceV({"slice"}, 0, 0, 0),
    ExprV("bool"), ExprV("int"),
    FrameV(1, "bool", <<1, 0, 1>>), FrameV(1, "int", <<2, -1, 0>>),
    FrameV(1, "int", <<0, -2>>), FrameV(1, "float", <<0>>),
    FrameV(2, "int", <<0>>),
    Scalar({"int"}, 2), Scalar({"int"}, -1), Scalar({"int"}, -4),
    Scalar({"none"}, 0), Scalar({"ellipsis"}, 0),
    ArrayV(<<3>>, "bool", <<1, 1, 0>>), ArrayV(<<1, 2>>, "int64", <<1, 0>>),
    ArrayV(<<2, 2>>, "int64", <<0, 1, 0, 1>>), ArrayV(<<2>>, "float64", <<0, 1>>),
    RangeV(0, 2, 1), RangeV(-1, -3, -1), RangeV(-2, 2, 1), RangeV(0, 5, 1),
    RangeV(3, 3, 1),
    Scalar({"iterable"}, 0),
    Scalar({"bool"}, 1),
    Scalar({}, 0) }

(* A float scalar, which no rule of _make matches, beside an int.          *)
MCValuesUnsupported == {Scalar({}, 0), Scalar({"int"}, 1)}

(* A 0-d array and a 2x2 array beside a valid one.                          *)
MCValuesArrays ==
  { ArrayV(<< >>, "int64", <<0>>), ArrayV(<<2, 2>>, "int64", <<0, 1, 0, 1>>),
    ArrayV(<<3>>, "bool", <<1, 1, 0>>) }

MCNRows == 0..3

=============================================================================
