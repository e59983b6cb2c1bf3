-------------------------- MODULE MCLaunchValidation --------------------------
(* LaunchValidation for TLC: launches that vary in one respect at a time. *)
EXTENDS LaunchValidation, SequencesExt

Pipe(maxTotal, width, static, bindings, arrays) ==
  [maxTotal |-> maxTotal, width |-> width, static |-> static,
   bindings |-> bindings, arrays |-> arrays]

Reads(index, size) == [index |-> index, size |-> size]

MCPipelines ==
  { Pipe(3, 2, 0, {}, {}), Pipe(2, 2, 0, {Reads(0, 4)}, {}), Pipe(3, 1, 5, {}, {0}),
    Pipe(3, 3, 0, {Reads(0, 0), Reads(2, 4)}, {}) }

\* Kernels whose max_total_threads_per_threadgroup is less than a SIMD group.
MCNarrowPipelines == {Pipe(2, 3, 0, {}, {}), Pipe(1, 3, 0, {}, {})}

Plain == [grid |-> <<2, 1, 1>>, tg |-> <<1, 1, 1>>, buffers |-> << >>,
          scalars |-> <<4>>, memory |-> <<4>>, indirect |-> None, indirect_offset |-> 0]

Sizes  == {0, 1, 2, 5}
Groups == {0, 1, 2, 4} \X {0, 1, 2, 4} \X {1, 2, 3}
Bufs   == [size : {0, 4}, offset : {0, 1, 4}]

Extents == {[Plain EXCEPT !.grid = g, !.tg = tg] :
              g \in Sizes \X Sizes \X Sizes, tg \in Groups \cup {None}}

Memories == {[Plain EXCEPT !.memory = m] : m \in BoundedSeq({0, 1, 5, 8, 28, 29, 31}, 2)}

Arguments == {[Plain EXCEPT !.buffers = b, !.scalars = s] :
                b \in BoundedSeq(Bufs, 2), s \in BoundedSeq({0, 2, 4, 8, 9}, 3)}

Indirect == {[Plain EXCEPT !.indirect = n, !.indirect_offset = o, !.tg = tg] :
               n \in {0, 12, 16, 31, None}, o \in {0, 2, 4, 16, 20, 28}, tg \in {None, <<1, 1, 1>>}}

\* Dimensions left out, or one too many.
Shorter == {[Plain EXCEPT !.grid = g, !.tg = tg] :
              g \in {<< >>, <<5>>, <<2, 2>>, <<1, 1, 1, 1>>}, tg \in {None, << >>, <<2>>, <<2, 1>>}}

\* Not even a buffer, or a scalar of a dtype that Metal has.
Unfit == {[Plain EXCEPT !.buffers = b, !.scalars = s] :
            b \in BoundedSeq({[size |-> 4, offset |-> 0], None}, 2), s \in BoundedSeq({4, None}, 2)}

MCLaunches == Extents \cup Memories \cup Arguments \cup Indirect \cup Shorter \cup Unfit
=============================================================================
