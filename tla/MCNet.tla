------------------------------- MODULE MCNet -------------------------------
(* One call for TLC.  Sizes are small numbers in the order of the real ones: *)
(* a head of 8 to 10 bytes fits a record of 12; bodies of nothing, a part of *)
(* a record, and more than one; answers without a blank line, with a body    *)
(* that both buffers hold, and with one that overflows either.               *)
EXTENDS Net

Url(https, host, port, path) == [https |-> https, host |-> host, port |-> port, path |-> path]

\* Fine; another scheme; a host and a port too long; a path that is cut.
MCUrls ==
    {Url(TRUE, 2, 0, 0), Url(FALSE, 2, 0, 0), Url(TRUE, 3, 0, 1), Url(TRUE, 2, 2, 1),
     Url(TRUE, 1, 1, 5)}

MCAnswers ==
    {[length |-> 3, head |-> 4], [length |-> 4, head |-> 2], [length |-> 7, head |-> 2],
     [length |-> 2, head |-> 2]}
=============================================================================
