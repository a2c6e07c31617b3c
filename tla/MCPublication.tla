----------------------------- MODULE MCPublication -----------------------------
(* Instances of Publication for TLC. *)
EXTENDS Publication, TLC

\* Everyone is asked for the same name.
SameName == [e \in Exporters |-> <<>>]

\* Somebody asks for the name that another's second candidate has.
CONSTANTS ea, eb
SecondName == ea :> <<>> @@ eb :> <<2>>

\* Exporters that ask for the same name are interchangeable.
Interchangeable == Permutations(Exporters)
=============================================================================
