---------------------------- MODULE MCIonPrefetch ----------------------------
(* Instances of IonPrefetch for TLC.  The three widest matrices of a layer (up, *)
(* gate, down) need two bounce-buffer loads, the others one, as in g_mat_len.   *)
EXTENDS IonPrefetch

MCChunks == [mi \in 0..NMat-1 |-> IF mi < UpMat THEN 1 ELSE 2]
=============================================================================
