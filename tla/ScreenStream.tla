----------------------------- MODULE ScreenStream -----------------------------
(***************************************************************************)
(* The compressed log of pixels (src/utils/screenstream.cpp and            *)
(* byte_aggregator.cpp).                                                   *)
(*                                                                         *)
(* A writer collects a run of equal colours in a ByteAggregator and writes *)
(* it to the file as a group when the colour changes or the run is as long *)
(* as a group can be; a reader takes the groups apart again.  The file is  *)
(* the sequence of its groups.  A group is [head, count]: the head is the  *)
(* colour, with the high bit set when the count takes two bytes, and a     *)
(* head of 255 marks the end.                                              *)
(***************************************************************************)
EXTENDS Integers, Sequences

CONSTANTS
    CAP,      \* the longest run in a group (0xffff)
    SMALL     \* the longest run counted in one byte (0xff)

ASSUME StreamAssumption ==
    /\ SMALL \in Nat \ {0}
    /\ CAP \in Nat
    /\ SMALL < CAP

MAX == 127      \* colours have to be below
END == 255      \* SCREENSTREAM_END

Group == [head : 0..255, count : 0..CAP]

EmptyRun == [val |-> 0, count |-> 0, is8 |-> TRUE]

(* A stream that is written, and one that is read. *)
NewWriter == [file |-> <<>>, aggr |-> EmptyRun, locked |-> FALSE]

NewReader(file) == [file |-> file, current |-> EmptyRun, value |-> END]

-----------------------------------------------------------------------------
(* operator<< and operator>> of AggrBytes. *)

Encoded_AlwaysSmall(run) == [head |-> run.val, count |-> run.count % (SMALL + 1)]

Encoded(run) ==
    IF run.is8 THEN [head |-> run.val, count |-> run.count % (SMALL + 1)]
               ELSE [head |-> run.val + 128, count |-> run.count]

Decoded(group) ==
    [val |-> group.head % 128, count |-> group.count, is8 |-> group.head < 128]

-----------------------------------------------------------------------------
(* Writing.                                                                *)

canLoad(w, palette) ==
    /\ w.aggr.count # CAP
    /\ w.locked => palette = w.aggr.val

load(w, palette) ==
    [w EXCEPT !.aggr = [val   |-> palette,
                        count |-> w.aggr.count + 1,
                        is8   |-> w.aggr.is8 /\ w.aggr.count # SMALL],
              !.locked = TRUE]

write(w, palette) ==
    IF canLoad(w, palette)
    THEN load(w, palette)
    ELSE load([file   |-> Append(w.file, Encoded(w.aggr)),
               aggr   |-> EmptyRun,
               locked |-> FALSE], palette)

(* The file after close: the run left over, then the end mark.             *)
Closed_ForgetsLeftover(w) == w.file \o <<[head |-> END, count |-> 0]>>

Closed(w) == w.file \o <<Encoded(w.aggr), [head |-> END, count |-> 0]>>

-----------------------------------------------------------------------------
(* Reading: the reader with the value it returns.  peek at the end of the  *)
(* file returns EOF, which is 255 as a byte.                               *)

AtEnd(r) == r.file = <<>> \/ Head(r.file).head = END

(* Counts are 16 bits wide. *)
TakeOne(run) == [run EXCEPT !.count = (run.count - 1) % (CAP + 1)]

read(r) ==
    CASE r.current.count # 0 ->
           [r EXCEPT !.current = TakeOne(r.current), !.value = r.current.val]
      [] r.current.count = 0 /\ AtEnd(r) ->
           [r EXCEPT !.value = END]
      [] OTHER ->
           LET run == Decoded(Head(r.file))
           IN  [file |-> Tail(r.file), current |-> TakeOne(run), value |-> run.val]
=============================================================================
