------------------------------ MODULE Registers -------------------------------
(***************************************************************************)
(* The I/O registers of the devices.  One table of every register that any *)
(* AVR has (io_regs.h) makes the descriptors of all devices; the headers   *)
(* m8_ioregs.h and m328_ioregs.h say what a device has, what it holds      *)
(* after reset and which bits can be written, and a register a device does *)
(* not have is at NO_REG.                                                  *)
(*                                                                         *)
(* A register is known by its name.  Two names of one address are one      *)
(* register: Place is the name that stands for both.                       *)
(***************************************************************************)
EXTENDS Integers, Sequences

Ports(letters) ==
  [i \in 1..(3 * Len(letters)) |->
     <<"PORT", "DDR", "PIN">>[((i - 1) % 3) + 1] \o letters[((i - 1) \div 3) + 1]]
\* High and low byte of every register.
Words(rs) ==
  [i \in 1..(2 * Len(rs)) |-> rs[(i + 1) \div 2] \o (IF i % 2 = 1 THEN "H" ELSE "L")]

(***************************************************************************)
(* AVR_INIT_IOREGS, in the order of its entries.                           *)
(***************************************************************************)
CoreRegs ==
  <<"SREG", "SPH", "SPL">> \o Ports(<<"A", "B", "C", "D", "E", "F", "G">>)
  \o <<"EIND", "RAMPZ", "SPMCSR">>
ControlRegs ==
  << "MCUCR", "MCUSR", "SMCR", "OCDR", "ACSR", "SPDR", "SPSR", "SPCR", "GPIOR2", "GPIOR1",
     "GPIOR0", "OCR0B", "OCR0A", "TCNT0", "TCCR0B", "TCCR0A", "TCCR0", "GTCCR", "EEARH",
     "EEARL", "EEDR", "EECR", "EIMSK", "EIFR", "PCIFR", "TIFR5", "TIFR4", "TIFR3",
     "TIFR2", "TIFR1" >>
M8Regs ==
  << "TIFR0", "TIFR", "GICR", "GIFR", "TIMSK", "SPMCR", "TWCR", "MCUCSR", "OSCCAL",
     "SFIOR", "TCCR1A", "TCCR1B" >> \o Words(<<"TCNT1", "OCR1A", "OCR1B", "ICR1">>)
  \o << "TCCR2", "TCNT2", "OCR2", "ASSR", "WDTCR", "UBRRH", "UCSRC", "UDR", "UCSRA",
        "UCSRB" >>
SerialRegs ==
  << "UBRRL", "ADMUX", "ADCSRA", "ADCH", "ADCL", "TWDR", "TWAR", "TWSR", "TWBR", "UDR3",
     "UBRR3H", "UBRR3L", "UCSR3C", "UCSR3B", "UCSR3A" >>
  \o Words(<<"OCR5C", "OCR5B", "OCR5A", "ICR5", "TCNT5">>)
  \o <<"TCCR5C", "TCCR5B", "TCCR5A", "PORTL", "DDRL">>
WidePortRegs ==
  <<"PINL">> \o Ports(<<"K", "J", "H">>)
  \o << "UDR2", "UBRR2H", "UBRR2L", "UCSR2C", "UCSR2B", "UCSR2A", "UDR1", "UBRR1H",
        "UBRR1L", "UCSR1C", "UCSR1B", "UCSR1A", "UDR0", "UBRR0H", "UBRR0L", "UCSR0C",
        "UCSR0B", "UCSR0A", "TWAMR", "OCR2B" >>
TimerRegs ==
  <<"OCR2A", "TCCR2B", "TCCR2A">> \o Words(<<"OCR4C", "OCR4B", "OCR4A", "ICR4", "TCNT4">>)
  \o <<"TCCR4C", "TCCR4B", "TCCR4A">> \o Words(<<"OCR3C", "OCR3B", "OCR3A", "ICR3", "TCNT3">>)
  \o <<"TCCR3C", "TCCR3B", "TCCR3A", "OCR1CH">>
MaskRegs ==
  << "OCR1CL", "TCCR1C", "DIDR1", "DIDR0", "DIDR2", "ADCSRB", "XMCRB", "XMCRA", "TIMSK5",
     "TIMSK4", "TIMSK3", "TIMSK2", "TIMSK1", "TIMSK0", "PCMSK2", "PCMSK1", "PCMSK0",
     "EICRB", "EICRA", "PCICR", "PRR1", "PRR0", "CLKPR", "WDTCSR", "SPCR0", "SPSR0",
     "DWDR", "PRR", "PCMSK3" >>
InitIoregs ==
  CoreRegs \o ControlRegs \o M8Regs \o SerialRegs \o WidePortRegs \o TimerRegs \o MaskRegs

(***************************************************************************)
(* Access masks: registers not named are writable as a whole.  Reset       *)
(* values: registers not named are zero.                                   *)
(***************************************************************************)
M8Full ==
  { "SREG", "SPL", "PORTB", "DDRB", "PORTD", "DDRD", "MCUCR", "SPDR", "SPCR", "TCNT0",
    "EEARL", "EEDR", "OSCCAL", "TCCR1A", "TCNT1H", "TCNT1L", "OCR1AH", "OCR1AL", "OCR1BH",
    "OCR1BL", "ICR1H", "ICR1L", "TCCR2", "TCNT2", "OCR2", "UCSRC", "UDR", "UBRRL",
    "ADCSRA", "TWDR", "TWAR", "TWBR" }
M8Masks ==
  [ PINB |-> 0, PINC |-> 0, PIND |-> 0, ADCH |-> 0, ADCL |-> 0, SPSR |-> 1, EEARH |-> 1,
    TWSR |-> 3, SPH |-> 7, TCCR0 |-> 7, MCUCSR |-> 15, EECR |-> 15, SFIOR |-> 15,
    ASSR |-> 15, WDTCR |-> 31, UCSRA |-> \h43, PORTC |-> \h7F, DDRC |-> \h7F,
    UBRRH |-> \h8F, SPMCR |-> \h9F, GIFR |-> \hC0, GICR |-> \hC3, ACSR |-> \hDF,
    TCCR1B |-> \hDF, ADMUX |-> \hEF, TIFR |-> \hFD, TIMSK |-> \hFD, TWCR |-> \hFD,
    UCSRB |-> \hFD ]
M8Resets == [UCSRC |-> \h82, UCSRA |-> \h20, TWDR |-> 1, TWAR |-> 2, TWSR |-> 8]

M328Full ==
  { "SREG", "SPH", "SPL", "PORTB", "DDRB", "PINB", "PORTD", "DDRD", "PIND", "SPDR", "SPCR",
    "GPIOR2", "GPIOR1", "GPIOR0", "OCR0B", "OCR0A", "TCNT0", "EEARL", "EEDR", "OSCCAL",
    "TCNT1H", "TCNT1L", "OCR1AH", "OCR1AL", "OCR1BH", "OCR1BL", "ICR1H", "ICR1L", "TCNT2",
    "ADCSRA", "TWDR", "TWAR", "TWBR", "UDR0", "UBRR0L", "UCSR0C", "OCR2B", "OCR2A",
    "PCMSK2", "PCMSK0", "WDTCSR" }
M328Masks ==
  [ ADCH |-> 0, ADCL |-> 0, SPSR |-> 1, EEARH |-> 3, EIMSK |-> 3, EIFR |-> 3, TWSR |-> 3,
    DIDR1 |-> 3, PCIFR |-> 7, TIFR2 |-> 7, TIFR0 |-> 7, TIMSK2 |-> 7, TIMSK0 |-> 7,
    PCICR |-> 7, MCUSR |-> 15, SMCR |-> 15, UBRR0H |-> 15, EICRA |-> 15, TIFR1 |-> \h27,
    TIMSK1 |-> \h27, EECR |-> \h3F, DIDR0 |-> \h3F, UCSR0A |-> \h43, ADCSRB |-> \h47,
    ASSR |-> \h60, MCUCR |-> \h73, PORTC |-> \h7F, DDRC |-> \h7F, PINC |-> \h7F,
    PCMSK1 |-> \h7F, GTCCR |-> \h83, CLKPR |-> \h8F, SPMCSR |-> \hBF, TCCR1C |-> \hC0,
    TCCR0B |-> \hCF, TCCR2B |-> \hCF, ACSR |-> \hDF, TCCR1B |-> \hDF, ADMUX |-> \hEF,
    PRR |-> \hEF, TCCR0A |-> \hF3, TCCR1A |-> \hF3, TCCR2A |-> \hF3, TWCR |-> \hF5,
    UCSR0B |-> \hFD, TWAMR |-> \hFE ]
M328Resets ==
  [ MCUSR |-> 2, TWAR |-> 1, TWSR |-> \hF8, UCSR0C |-> 6, UCSR0A |-> \h20, CLKPR |-> 3,
    WDTCSR |-> 8 ]

M8Header   == [full |-> M8Full, masks |-> M8Masks, resets |-> M8Resets]
M328Header == [full |-> M328Full, masks |-> M328Masks, resets |-> M328Resets]

Exists(h, r) == r \in h.full \cup DOMAIN h.masks
Reset(h, r)  == IF r \in DOMAIN h.resets THEN h.resets[r] ELSE 0
Mask(h, r)   == IF r \in h.full THEN 255 ELSE h.masks[r]

\* UBRRH and UCSRC of the ATmega8A have one address.
Place(r) == IF r = "UBRRH" THEN "UCSRC" ELSE r

(***************************************************************************)
(* mcu_init: what is written last at an address stays.                     *)
(***************************************************************************)
LastAt(h, r) ==
  LET at == {i \in 1..Len(InitIoregs) : /\ Exists(h, InitIoregs[i])
                                        /\ Place(InitIoregs[i]) = Place(r)}
  IN  InitIoregs[CHOOSE i \in at : \A j \in at : j <= i]
InitialValue(h, r) == Reset(h, LastAt(h, r))
WriteMask(h, r)    == Mask(h, LastAt(h, r))
=============================================================================
