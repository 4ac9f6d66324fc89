--------------------------- MODULE MCLocalPhotos ---------------------------
EXTENDS LocalPhotos

\* Three photos on the card, two of other places in the order on the flash.
MCStored == [flash |-> {3}, sd |-> {1, 2, 3}]
=============================================================================
