------------------------------- MODULE MCBoard --------------------------------
(* Board with a port of two pins, and a port behind the end of the list. *)
EXTENDS Board
MCPorts  == <<[port |-> "PORTB", ddr |-> "DDRB", pin |-> "PINB"], NoPort,
              [port |-> "PINC", ddr |-> "PINC", pin |-> "PINC"]>>
MCDumped == <<[reg |-> "PORTB", low |-> "DDRB", bit |-> NoBit],
              [reg |-> "PINB", low |-> NoReg, bit |-> 0]>>
=============================================================================
