------------------------------ MODULE Iterables ------------------------------
(***************************************************************************)
(* Values with their contents, and the native functions that compute with  *)
(* them: standard_library/iterables.rs and what it uses of values.rs.      *)
(*                                                                         *)
(* A value is a record [t, v, items]: t is its variant, v its number (for  *)
(* a list or an object its place in the heap), items what it holds itself: *)
(* the characters of a string, the bounds of a range, the value in an any. *)
(* Lists and objects are shared: their contents are in a heap.  A float is *)
(* a whole number, NotANumber or an infinity.                              *)
(***************************************************************************)
EXTENDS Arithmetic, Sequences, SequencesExt

TypedValue(t, v, items) == [t |-> t, v |-> v, items |-> items]
NoneValue == TypedValue("None", 0, <<>>)
Number(n) == TypedValue("Int", n, <<>>)
Floating(n) == TypedValue("Float", n, <<>>)
Truth(b) == TypedValue("Bool", IF b THEN 1 ELSE 0, <<>>)
Character(n) == TypedValue("Char", n, <<>>)
StringOf(characters) == TypedValue("String", 0, characters)
RangeOf(start, end) == TypedValue("Range", 0, <<start, end>>)
InAny(value) == TypedValue("Any", 0, <<value>>)
ListAt(place) == TypedValue("List", place, <<>>)
NativeValue(index) == TypedValue("NativeFunc", index, <<>>)

\* What a call of a native function comes to.
Given(value, heap) == [end |-> "ok", value |-> value, heap |-> heap]
Ends(end, heap) == [end |-> end, value |-> NoneValue, heap |-> heap]
NewList(items, heap) == Given(ListAt(Len(heap) + 1), Append(heap, items))

(***************************************************************************)
(* Equality is that of the contents, lists within lists included.          *)
(***************************************************************************)
RECURSIVE ValuesEqual(_, _, _)
ValuesEqual(a, b, heap) ==
    LET inside(x) == IF x.t \in {"List", "Object"} THEN heap[x.v] ELSE x.items
        same(s, r) == /\ Len(s) = Len(r)
                      /\ \A i \in DOMAIN s : ValuesEqual(s[i], r[i], heap)
    IN /\ a.t = b.t
       /\ a.t \in {"List", "Object"} \/ a.v = b.v
       /\ ~(a.t = "Float" /\ a.v = NotANumber)
       /\ same(inside(a), inside(b))

(***************************************************************************)
(* Strings.  The text of anything but a character or a string is a single  *)
(* character that stands for it.                                           *)
(***************************************************************************)
RECURSIVE Text(_)
Text(value) ==
    CASE value.t = "Any" -> Text(value.items[1])
      [] value.t = "String" -> value.items
      [] value.t = "Char" -> <<value>>
      [] OTHER -> <<TypedValue("Char", -1, <<value>>)>>

\* a_chars.cmp(b_chars): the first difference decides, or else the length.
Compare(a, b) ==
    LET differ == {i \in DOMAIN a \cap DOMAIN b : a[i].v # b[i].v}
        first == CHOOSE i \in differ : \A j \in differ : i <= j
        cmp(x, y) == IF x < y THEN -1 ELSE IF x > y THEN 1 ELSE 0
    IN IF differ = {} THEN cmp(Len(a), Len(b)) ELSE cmp(a[first].v, b[first].v)

\* A delimiter closes the part that is being collected.
SplitParts(characters, delim) ==
    LET step(acc, c) == IF c.v = delim.v THEN [list |-> Append(acc.list, acc.temp), temp |-> <<>>]
                        ELSE [acc EXCEPT !.temp = Append(@, c)]
        end == FoldLeft(step, [list |-> <<>>, temp |-> <<>>], characters)
    IN Append(end.list, end.temp)

(***************************************************************************)
(* Indices and slices.  A negative number `as usize` is beyond every       *)
(* length, and an index or a bound beyond the end panics.                  *)
(***************************************************************************)
WrappedIndex(index, length) == IF index < 0 THEN index + length ELSE index

\* items[start..end]
SlicesAt(start, end, length) == 0 <= start /\ start <= end /\ end <= length
SliceOf(items, start, end) == SubSeq(items, start + 1, end)

(***************************************************************************)
(* The registry, in its order, with the variants that val_into! demands;   *)
(* "" for a parameter that is not looked at.                               *)
(***************************************************************************)
NativeNames == << "print", "println", "clock", "str", "split",
                  "str_len", "str_concat", "str_slice", "str_index_get", "str_cmp",
                  "list_len", "list_concat", "list_slice", "list_index_get", "list_index_set",
                  "new_list", "new_range", "range_start", "range_end", "new_obj" >>
NativeIndex(name) == CHOOSE i \in DOMAIN NativeNames : NativeNames[i] = name

Demands(name) ==
    CASE name \in {"print", "println"} -> <<"Any">>
      [] name = "split" -> <<"String", "Char">>
      [] name = "str_len" -> <<"String">>
      [] name \in {"str_concat", "str_cmp"} -> <<"String", "String">>
      [] name = "str_slice" -> <<"String", "Range">>
      [] name = "str_index_get" -> <<"String", "Int">>
      [] name = "list_len" -> <<"List">>
      [] name = "list_concat" -> <<"List", "List">>
      [] name = "list_slice" -> <<"List", "Range">>
      [] name = "list_index_get" -> <<"List", "Int">>
      [] name = "list_index_set" -> <<"", "List", "Int">>
      [] name \in {"range_start", "range_end"} -> <<"Range">>
      [] OTHER -> <<>>

MeetsDemands(name, args) ==
    /\ \A i \in DOMAIN Demands(name) : Demands(name)[i] \in {"", args[i].t}
    /\ name \in {"str_slice", "list_slice"} => \A i \in 1..2 : args[2].items[i].t = "Int"

\* list_concat calls its first argument l2 and appends it to the second.
Concatenated(args, heap) == NewList(heap[args[2].v] \o heap[args[1].v], heap)

ElementCall(items, index) == [fits |-> index \in 0..(Len(items) - 1), at |-> index + 1]

\* The result of the native function of that name; the ones that print or read
\* the clock are not called here.
NativeCall(name, args, heap) ==
    LET items(i) == IF args[i].t = "List" THEN heap[args[i].v] ELSE args[i].items
        start == args[2].items[1].v
        end == args[2].items[2].v
        slices == SlicesAt(start, end, Len(items(1)))
        part == SliceOf(items(1), start, end)
        element(list, index) == ElementCall(items(list), index)
        wrapped(list, index) == element(list, WrappedIndex(args[index].v, Len(items(list))))
        parts == SplitParts(items(1), args[2])
    IN IF ~MeetsDemands(name, args) THEN Ends("internal_error", heap)
       ELSE CASE name = "str" -> Given(StringOf(Text(args[1])), heap)
              [] name = "split" -> NewList([i \in DOMAIN parts |-> StringOf(parts[i])], heap)
              [] name \in {"str_len", "list_len"} -> Given(Number(Len(items(1))), heap)
              [] name = "str_concat" -> Given(StringOf(items(1) \o items(2)), heap)
              [] name = "str_cmp" -> Given(Number(Compare(items(1), items(2))), heap)
              [] name = "str_slice" ->
                    IF slices THEN Given(StringOf(part), heap)
                    ELSE Ends("out_of_bounds", heap)
              [] name = "list_slice" ->
                    IF slices THEN NewList(part, heap) ELSE Ends("out_of_bounds", heap)
              [] name = "str_index_get" ->
                    IF element(1, args[2].v).fits THEN Given(items(1)[args[2].v + 1], heap)
                    ELSE Ends("out_of_bounds", heap)
              [] name = "list_index_get" ->
                    IF wrapped(1, 2).fits THEN Given(items(1)[wrapped(1, 2).at], heap)
                    ELSE Ends("out_of_bounds", heap)
              [] name = "list_index_set" ->
                    IF wrapped(2, 3).fits
                    THEN Given(args[1], [heap EXCEPT ![args[2].v][wrapped(2, 3).at] = args[1]])
                    ELSE Ends("out_of_bounds", heap)
              [] name = "list_concat" -> Concatenated(args, heap)
              [] name = "new_list" -> NewList(args, heap)
              [] name = "new_range" -> Given(RangeOf(args[1], args[2]), heap)
              [] name = "range_start" -> Given(args[1].items[1], heap)
              [] name = "range_end" -> Given(args[1].items[2], heap)
==============================================================================
