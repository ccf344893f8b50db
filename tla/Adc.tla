--------------------------------- MODULE Adc ---------------------------------
(***************************************************************************)
(* The analogue to digital converter of shared/adc.c.  The wait for the    *)
(* end of the conversion is commented out: adc_single_measure() returns    *)
(* what _adc10_value holds after a fixed delay of 64 cycles.  A conversion *)
(* takes 64 clocks of sampling and 13 of converting, so that its interrupt *)
(* comes after the return, unless another handler has delayed the return.  *)
(*                                                                         *)
(* A measured value is its age: how many measurements have been started    *)
(* after the one that it is of.                                            *)
(***************************************************************************)
EXTENDS Naturals

CONSTANT MaxAge   \* bound: older values are not told apart

VARIABLES _adc10_value,   \* its age
          _adc10_done,
          converting      \* the converter runs

adc == <<_adc10_value, _adc10_done, converting>>

\* Before the first measurement the value is the 0 of the initialisation,
\* which is as old as a measurement that the first one follows.
AdcInit == _adc10_value = 0 /\ _adc10_done = FALSE /\ converting = FALSE

Older(age) == IF age < MaxAge THEN age + 1 ELSE age

\* adc_single_measure() up to the delay.
StartMeasure == /\ _adc10_done' = FALSE /\ converting' = TRUE
                /\ _adc10_value' = Older(_adc10_value)

\* (The other form does not store what has been measured.)
ADC10_ISRUnsaved == converting /\ converting' = FALSE /\ _adc10_done' = TRUE
                    /\ UNCHANGED _adc10_value

ADC10_ISR == converting /\ converting' = FALSE /\ _adc10_done' = TRUE
             /\ _adc10_value' = 0
==============================================================================
