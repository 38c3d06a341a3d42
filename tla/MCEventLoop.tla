----------------------------- MODULE MCEventLoop -----------------------------
(* Small instances of EventLoop for TLC. *)
EXTENDS EventLoop, TLC

(* Descriptors and session addresses are interchangeable, Lfd apart. *)
Symmetry == Permutations(Fds \ {Lfd}) \cup Permutations(Sessions)

(* The cached events start as anything a session may ask for, or as none. *)
AnyGarbage == {DIE, READING, WRITING}

(* Fewer: a value which is neither makes the first ctl() tell the kernel,  *)
(* as WRITING does if it is for READING, and READING if it is for WRITING. *)
UsualGarbage == {READING, WRITING}
=============================================================================
