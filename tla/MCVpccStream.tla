---------------------------- MODULE MCVpccStream ----------------------------
(***************************************************************************)
(* Small instances of VpccStream: identifiers and mode counts of one bit,  *)
(* bytes of two, so that three groups wrap an identifier around.           *)
(***************************************************************************)
EXTENDS VpccStream

\* All flags, with as many modes as the field can count.
CodedModes == {o \in [losslessGeo : BOOLEAN, lossyMissedPointsPatch : BOOLEAN,
                      useMissedPointsSeparateVideo : BOOLEAN,
                      oneLayerMode : BOOLEAN,
                      singleLayerPixelInterleaving : BOOLEAN,
                      absoluteD1 : BOOLEAN, noAttributes : BOOLEAN,
                      nbPlrmMode : 0 .. 2] :
                 o.nbPlrmMode > 0}

Plain == [losslessGeo |-> FALSE, lossyMissedPointsPatch |-> FALSE,
          useMissedPointsSeparateVideo |-> FALSE, oneLayerMode |-> FALSE,
          singleLayerPixelInterleaving |-> FALSE, absoluteD1 |-> TRUE,
          noAttributes |-> FALSE, nbPlrmMode |-> 0]
OneLayer == [Plain EXCEPT !.oneLayerMode = TRUE, !.nbPlrmMode = 1]
Lossless == [Plain EXCEPT !.losslessGeo = TRUE,
                          !.useMissedPointsSeparateVideo = TRUE]

Several == {Plain, OneLayer, Lossless}
=============================================================================
