------------------------------ MODULE Invoices ------------------------------
(***************************************************************************)
(* The invoices of one merchant: the handlers of app/routes/invoices.py,   *)
(* the invoices made of payments (app/services/invoice_service.py, called  *)
(* when a webhook was delivered) and the receipts made on request          *)
(* (app/services/receipt_service.py).                                      *)
(*                                                                         *)
(* A handler reads, decides and commits without an await in between: a     *)
(* server process works on one request at a time.  Tax stands for tax less *)
(* discount.                                                               *)
(***************************************************************************)
EXTENDS Integers, Sequences, FiniteSets, Rows

CONSTANTS
    Clerks,       \* server processes
    PaidSessions, \* payment sessions that are paid
    Taxes,        \* values of tax less discount
    MaxInvoices,  \* bound on rows
    MaxEdits      \* bound on requests that change a row

ASSUME InvoiceAssumption == IsFiniteSet(Clerks) /\ {MaxInvoices, MaxEdits} \subseteq Nat

VARIABLES
    invoice,  \* invoices, in the order of insertion
    clerk,    \* the draft of each process
    edits     \* requests that change a row so far

invoiceVars == <<invoice, clerk, edits>>
-----------------------------------------------------------------------------
Subtotal == 1
InvoiceStatus == {"DRAFT", "SENT", "PAID", "CANCELLED"}

\* number: the counter at the end of a generated number.  session is {} or the
\* session the invoice is for.  by and late are history: the process that
\* inserted the row, and how often its total was written once it was sent.
InvoiceRow == [number: Nat, status: InvoiceStatus, tax: Taxes,
               total: {Subtotal} \cup {Subtotal + tax : tax \in Taxes},
               session: SUBSET PaidSessions, by: Clerks, late: Nat]

NoDraft == [kind |-> "none"]

\* Rows and drafts keep their types.
InvoiceTypeOK ==
    /\ invoice \in Seq(InvoiceRow)
    /\ edits \in 0..MaxEdits
    /\ \A p \in Clerks :
         \/ clerk[p] = NoDraft
         \/ clerk[p].kind = "insert" /\ clerk[p].row \in InvoiceRow
         \/ clerk[p].kind = "write" /\ clerk[p].at \in DOMAIN invoice

InvoiceInit ==
    /\ invoice = <<>>
    /\ clerk = [p \in Clerks |-> NoDraft]
    /\ edits = 0
-----------------------------------------------------------------------------
\* generate_invoice_number: the number of rows, and one.
NextNumber == Len(invoice) + 1

BeginInsert(p, row) ==
    /\ clerk[p] = NoDraft
    /\ Len(invoice) < MaxInvoices
    /\ clerk' = [clerk EXCEPT ![p] = [kind |-> "insert", row |-> row]]
    /\ UNCHANGED <<invoice, edits>>

NewInvoice(p, status, tax) ==
    [number |-> NextNumber, status |-> status, tax |-> tax, total |-> Subtotal + tax,
     session |-> {}, by |-> p, late |-> 0]

BeginCreateInvoice(p) ==
    \E status \in {"DRAFT", "SENT"}, tax \in Taxes :
        BeginInsert(p, NewInvoice(p, status, tax))

BeginDuplicate(p, i) ==
    BeginInsert(p, [NewInvoice(p, "DRAFT", invoice[i].tax) EXCEPT
                        !.total = invoice[i].total])

\* Neither the invoices nor the receipts of the session are among the rows.
NotInvoiced(s) == \A i \in DOMAIN invoice : s \notin invoice[i].session

PaidInvoice(p, s, tax) ==
    [NewInvoice(p, "PAID", tax) EXCEPT !.session = {s}]

\* create_invoice_from_payment
BeginInvoicePayment(p, s) ==
    /\ NotInvoiced(s)
    /\ \E tax \in Taxes : BeginInsert(p, PaidInvoice(p, s, tax))

\* A receipt has another prefix and its total leaves the discount out.
BeginReceipt(p, s) ==
    /\ NotInvoiced(s)
    /\ \E tax \in Taxes : BeginInsert(p,
         [PaidInvoice(p, s, tax) EXCEPT !.total = Subtotal])
-----------------------------------------------------------------------------
\* A draft of changed columns for row i.
BeginWrite(p, i, columns) ==
    /\ clerk[p] = NoDraft
    /\ edits < MaxEdits
    /\ clerk' = [clerk EXCEPT ![p] = [kind |-> "write", at |-> i, set |-> columns]]
    /\ edits' = edits + 1
    /\ UNCHANGED invoice

\* Mutant: an invoice that was sent can be edited.
EditsOpen(p, i) ==
    /\ invoice[i].status \in {"DRAFT", "SENT"}
    /\ \E tax \in Taxes :
         BeginWrite(p, i, [tax |-> tax, total |-> Subtotal + tax])

\* Mutant: the new tax is added to the old total.
TaxOnTotal(p, i) ==
    /\ invoice[i].status = "DRAFT"
    /\ \E tax \in Taxes :
         BeginWrite(p, i, [tax |-> tax, total |-> invoice[i].total + tax])

\* Line items, or tax and discount, with the total they make.
BeginUpdateInvoice(p, i) ==
    /\ invoice[i].status = "DRAFT"
    /\ \E tax \in Taxes :
         BeginWrite(p, i, [tax |-> tax, total |-> Subtotal + tax])

BeginSend(p, i) ==
    /\ invoice[i].status \in {"DRAFT", "SENT"}
    /\ BeginWrite(p, i, [status |-> "SENT"])

BeginCancelInvoice(p, i) ==
    /\ invoice[i].status \notin {"PAID", "CANCELLED"}
    /\ BeginWrite(p, i, [status |-> "CANCELLED"])

Rewritten(row, columns) ==
    LET new == Overlay(columns, row) IN
    IF "total" \in DOMAIN columns /\ row.status # "DRAFT"
    THEN [new EXCEPT !.late = row.late + 1] ELSE new

CommitInvoice(p) ==
    /\ clerk[p] # NoDraft
    /\ invoice' = IF clerk[p].kind = "insert" THEN Append(invoice, clerk[p].row)
                  ELSE [invoice EXCEPT ![clerk[p].at] = Rewritten(@, clerk[p].set)]
    /\ clerk' = [clerk EXCEPT ![p] = NoDraft]
    /\ UNCHANGED edits

ClerkStep(p) ==
    \/ BeginCreateInvoice(p)
    \/ \E s \in PaidSessions : BeginInvoicePayment(p, s) \/ BeginReceipt(p, s)
    \/ \E i \in DOMAIN invoice :
         BeginDuplicate(p, i) \/ BeginUpdateInvoice(p, i)
         \/ BeginSend(p, i) \/ BeginCancelInvoice(p, i)
    \/ CommitInvoice(p)

InvoiceNext == \E p \in Clerks : ClerkStep(p)

InvoiceSpec == InvoiceInit /\ [][InvoiceNext]_invoiceVars
-----------------------------------------------------------------------------
(***************************************************************************)
(* Properties.                                                             *)
(***************************************************************************)
RowsOf(p) == {i \in DOMAIN invoice : invoice[i].by = p}

\* Two processes may give out one number; a process never gives out one
\* twice, whatever was cancelled in between.
NumbersPerProcess ==
    \A p \in Clerks : \A i, j \in RowsOf(p) :
        i < j => invoice[i].number < invoice[j].number

\* The look-up and the insert are not one step, so a payment may get an
\* invoice of each process, but not two of one, nor one and a receipt.
InvoicedOncePerProcess ==
    \A p \in Clerks : \A i, j \in RowsOf(p) :
        i # j => invoice[i].session \cap invoice[j].session = {}

\* "Can only update invoices in draft status": what was sent is edited at most
\* once by each process but the one that sent it, with an update begun before.
EditsAfterSending ==
    \A i \in DOMAIN invoice : invoice[i].late < Cardinality(Clerks)

\* The invoice of a payment stays paid, also when a request that was decided
\* earlier is committed later.
PaymentsInvoicesStayPaid ==
    \A i \in DOMAIN invoice : invoice[i].session # {} => invoice[i].status = "PAID"

\* What one process numbers, invoices and edits, and what a payment made.
\* (invoices.py: create_invoice, update_invoice; invoice_service.py:
\* create_invoice_from_payment)
InvoicesHold ==
    /\ NumbersPerProcess /\ InvoicedOncePerProcess
    /\ EditsAfterSending /\ PaymentsInvoicesStayPaid
=============================================================================
