------------------------------- MODULE MCTrace -------------------------------
(* A program to trace. *)
EXTENDS Preprocess

(* A loop whose body calls a function with a branch of its own              *)
(* and an external one; the function calls a leaf, or one of two through a  *)
(* pointer (in SimPoint runs only); main returns after the loop.            *)
Op(kind, to) == [kind |-> kind, to |-> to]

Loops == [
    main |-> <<Op("op", <<>>), Op("br", <<"head">>)>>,
    head |-> <<Op("phi", <<>>), Op("mem", <<>>), Op("call", <<"f">>), Op("call", <<>>),
               Op("br", <<"head", "done">>)>>,
    done |-> <<Op("switch", <<"done", "last">>)>>,
    last |-> <<Op("call", <<"g">>), Op("cosim", <<>>), Op("mem", <<>>), Op("ret", <<>>)>>,
    f    |-> <<Op("switch", <<"fend", "fout", "fptr">>)>>,
    fout |-> <<Op("ret", <<>>)>>,
    fptr |-> <<Op("call", <<"g", "fout">>), Op("ret", <<>>)>>,
    fend |-> <<Op("call", <<"g">>), Op("mem", <<>>), Op("call", <<"g">>), Op("ret", <<>>)>>,
    g    |-> <<Op("mem", <<>>), Op("ret", <<>>)>>]
=============================================================================
