---------------------------- MODULE MCSuppression ----------------------------
EXTENDS Suppression

\* Two pairs; the dearer one may be in stock at all times, or none.
TwoPairs == << <<"small", "fsn1">>, <<"small", "nbg1">> >>
DearerOrNone == { {}, { <<"small", "nbg1">> } }
=============================================================================
