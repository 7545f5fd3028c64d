----------------------------- MODULE MCAtaDrives -----------------------------
(* A small instance of AtaDrives: drives of every kind the negotiation      *)
(* tells apart, and controllers with and without modes of their own.        *)
EXTENDS AtaDrives, TLC

Plain  == [modes |-> FALSE, pio |-> {}, dma |-> {}, udmamodes |-> FALSE, udma |-> {},
           wfua |-> FALSE, ncq |-> 0]
OldDma == [Plain EXCEPT !.modes = TRUE, !.pio = {0}, !.dma = {1, 2}]
Ultra  == [modes |-> TRUE, pio |-> {0, 1}, dma |-> {2}, udmamodes |-> TRUE, udma |-> {1, 2, 3},
           wfua |-> TRUE, ncq |-> 2]
Bogus  == [Plain EXCEPT !.modes = TRUE, !.pio = {0, 5}]

MCDisks == 0 :> {OldDma, Ultra, Bogus} @@ 1 :> {Plain}

Wrap030 == [modes |-> FALSE, dma |-> FALSE, udma |-> FALSE, ncq |-> FALSE, data32 |-> FALSE,
            nostream |-> TRUE, pio_cap |-> 0, dma_cap |-> 0, udma_cap |-> 0]
UltraDma == [modes |-> TRUE, dma |-> TRUE, udma |-> TRUE, ncq |-> TRUE, data32 |-> TRUE,
             nostream |-> FALSE, pio_cap |-> 4, dma_cap |-> 1, udma_cap |-> 2]
SlowPio == [UltraDma EXCEPT !.udma = FALSE, !.pio_cap = 3, !.data32 = FALSE]

MCControllers == {Wrap030, UltraDma, SlowPio}

Auto == [pio |-> None, dma |-> None, udma |-> None]
MCConfigs == {Auto, [pio |-> 3, dma |-> Disable, udma |-> 2]}
=============================================================================
