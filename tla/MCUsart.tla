------------------------------- MODULE MCUsart --------------------------------
(* Usart on a short line. *)
EXTENDS Usart
\* Enabled, with up to eight bits or nine; eight bits and synchronous, instead of six and
\* asynchronous as after a reset.
MCSettings == {<<"UCSRB", 24>>, <<"UCSRB", 28>>, <<"UCSRC", 198>>}
\* Eight bits, asynchronous; the rate and the double speed.
MCRates == MCSettings \cup {<<"UCSRC", 134>>, <<"UBRRL", 1>>, <<"UBRRH", 0>>, <<"UBRRH", 1>>,
                            <<"UCSRA", 2>>}
=============================================================================
