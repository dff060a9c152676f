---------------------------- MODULE MCC3Networks ----------------------------
(* The C3 and C3i networks of four units, small arrays. *)
EXTENDS C3Networks

\* A C3i lance; one C3 master and three slaves; two masters on different units.
MCFleets == { <<C3I, C3I, C3I, C3I>>,
              <<1, SLAVE, SLAVE, SLAVE>>,
              <<1, 1, SLAVE, SLAVE>> }
=============================================================================
